---- MODULE Spec2Model ----
(***************************************************************************)
(* Ledger and API-key model of the wallet service.                         *)
(*                                                                         *)
(* Each request is handled by a worker with its own database session.      *)
(* A worker's step is one database round trip (a SELECT, a flush, a        *)
(* commit) together with the local computation that follows it up to the   *)
(* next round trip.  Sessions are created with autoflush=False             *)
(* (db/session.py), so attribute assignments on loaded rows reach the      *)
(* database only at the commit that follows them, as UPDATEs that set the  *)
(* value computed in Python from the value the session loaded.             *)
(*                                                                         *)
(* Money: a Decimal with two fractional digits is represented by its       *)
(* integer number of hundredths.  Time: hours since the start.             *)
(***************************************************************************)
EXTENDS Integers, Sequences, FiniteSets, TLC

\* ------------------------------------------------------------------ bounds
\* events of one behaviour: requests started and hours passed
MaxRequests == 3

\* events that follow a key table that earlier requests have filled
SeedRequests == 2

\* --------------------------------------------------------------- universe
Users == {"u1", "u2", "u3"}

Workers == {"w1", "w2"}

\* wallet_number column of the wallet of user u (unique per wallet)
WalletNumber(u) == IF u = "u1" THEN "wn1" ELSE IF u = "u2" THEN "wn2" ELSE "wn3"

\* wallet numbers a transfer request may name; "wn9" belongs to no wallet
WalletNumberInputs == {"wn1", "wn2", "wn3", "wn9"}

\* references a webhook may carry; "rx" is the reference of no transaction
ReferenceInputs == {"r1", "r2", "rx"}

\* amounts (minor units) and gateway statuses a webhook may carry
KoboInputs == {1, 2}

PaystackStatusInputs == {"success", "failed"}

\* request bodies of the webhook endpoint: a parsed JSON object is represented
\* by the fields the handler reads; a missing reference is "" and a missing
\* amount 0 (both are falsy, as None is)
WebhookBody(event, reference, amount, status) ==
  [json |-> TRUE, event |-> event, reference |-> reference, amount |-> amount,
   status |-> status]

\* a body that is not valid JSON
NotJsonBody ==
  [json |-> FALSE, event |-> "", reference |-> "", amount |-> 0, status |-> ""]

\* hmac.new(PAYSTACK_SECRET_KEY, payload, sha512).hexdigest()
Sign(body) == <<"hmac-sha512", body>>

\* the header is absent or empty
NoSignature == <<>>

\* a digest that is the signature of no body a request carries
ForgedSignature == Sign(WebhookBody("forged", "", 0, ""))

\* (body, signature) pairs a webhook request may carry: every charge.success
\* body, a body of another event, a body without reference, a body without
\* amount and a body that is not JSON, each correctly signed; the body that is
\* not JSON and one charge.success body also unsigned and with a forged
\* signature
WebhookInputs ==
  LET good == WebhookBody("charge.success", "r1", 2, "success")
      bodies ==
        {WebhookBody("charge.success", reference, kobo, pstatus) :
           reference \in ReferenceInputs, kobo \in KoboInputs,
           pstatus \in PaystackStatusInputs}
        \cup {WebhookBody("charge.failed", "r1", 2, "success"),
              WebhookBody("charge.success", "", 2, "success"),
              WebhookBody("charge.success", "r1", 0, "success"),
              NotJsonBody}
  IN {<<body, Sign(body)>> : body \in bodies}
       \cup {<<body, signature>> :
               body \in {good, NotJsonBody},
               signature \in {NoSignature, ForgedSignature}}

\* amounts (hundredths) a deposit request may carry
DepositAmountInputs == {0, 1}

\* what the call of the gateway may do: return the authorization URL, raise
\* (error response, timeout), or never complete because the request is cancelled
GatewayOutcomes == {"ok", "error", "cancelled"}

\* amounts (hundredths) a transfer request may carry
TransferAmountInputs == {0, 1}

PENDING == "pending"

SUCCESS == "success"

FAILED == "failed"

DEPOSIT == "deposit"

TRANSFER == "transfer"

VARIABLES
  wallets,      \* wallets table: user -> [exists, balance]
  txs,          \* transactions table: sequence of rows in insertion order
  pc,           \* per worker: the request's position
  loc,          \* per worker: the request's arguments and session-loaded values
  result,       \* per worker: what the finished call returned or raised
  creditLog,    \* reference -> number of "Successfully credited wallet" log lines
  requests,     \* events so far: requests started and hours passed
  keys,         \* api_keys table: sequence of rows, a row's id is its index
  now,          \* the clock, in hours
  locks         \* per worker: ids of the api_keys rows its transaction has locked

vars == <<wallets, txs, pc, loc, result, creditLog, requests, keys, now, locks>>

NoLoc == [op |-> "none"]

\* ------------------------------------------------------------ table access
\* index of the transaction with this reference, 0 when there is none
TxIndex(reference) ==
  IF \E i \in 1..Len(txs) : txs[i].reference = reference
  THEN CHOOSE i \in 1..Len(txs) : txs[i].reference = reference
  ELSE 0

\* the user whose wallet carries this wallet number, "none" when there is none
WalletByNumber(wn) ==
  IF \E u \in Users : wallets[u].exists /\ WalletNumber(u) = wn
  THEN CHOOSE u \in Users : wallets[u].exists /\ WalletNumber(u) = wn
  ELSE "none"

\* a non-negative decimal.Decimal: coefficient and exponent, value
\* coef * 10^exp
Dec(coef, exp) == [coef |-> coef, exp |-> exp]

\* Decimal(n) of an int
DecimalOfInt(n) == Dec(n, 0)

\* Decimal.__truediv__ by 100: the quotient is exact here, and its exponent
\* is the one nearest to the dividend's that represents it exactly
DivideByHundred(d) ==
  IF d.coef % 100 = 0 THEN Dec(d.coef \div 100, d.exp)
  ELSE IF d.coef % 10 = 0 THEN Dec(d.coef \div 10, d.exp - 1)
  ELSE Dec(d.coef, d.exp - 2)

\* Decimal.__mul__ by 100
TimesHundred(d) == Dec(d.coef * 100, d.exp)

\* int(Decimal): the integer part, truncated towards zero
IntegerPart(d) ==
  IF d.exp >= 0 THEN d.coef * 10^(d.exp) ELSE d.coef \div 10^(0 - d.exp)

\* Decimal.__eq__: equality of the values
DecimalEqual(x, y) ==
  LET m == IF x.exp < y.exp THEN x.exp ELSE y.exp
  IN x.coef * 10^(x.exp - m) = y.coef * 10^(y.exp - m)

\* Numeric(15, 2): the value as the column stores it, with two fractional
\* digits (the request schema admits at most two)
StoredAmount(d) == Dec(d.coef * 10^(d.exp + 2), -2)

\* the hundredths a Decimal with at most two fractional digits amounts to
Hundredths(d) == d.coef * 10^(d.exp + 2)

\* mutant: the division by 100 is an integer division
KoboToDecimalFloorDivision(kobo) == Dec(kobo \div 100, 0)

\* amount = Decimal(amount_in_kobo) / 100
KoboToDecimal(kobo) == DivideByHundred(DecimalOfInt(kobo))

\* amount_in_kobo = int(amount * 100)
AmountToKobo(amount) == IntegerPart(TimesHundred(amount))

\* the webhook's amount in hundredths, the unit of the balances and amounts
\* of the model
KoboToAmount(kobo) == Hundredths(KoboToDecimal(kobo))

\* ------------------------------------------------------------------ webhook
\* verify_paystack_signature: compare_digest(expected_signature, signature)
VerifyPaystackSignature(body, signature) == signature = Sign(body)

\* mutant: the body is parsed before the signature is looked at
FrontOutcomeParsesFirst(body, signature) ==
  IF ~body.json THEN "ValueError:json"
  ELSE IF signature = NoSignature THEN "ValueError:missing signature"
  ELSE IF ~VerifyPaystackSignature(body, signature)
    THEN "ValueError:invalid signature"
  ELSE IF body.event # "charge.success" THEN "false"
  ELSE IF body.reference = "" \/ body.amount = 0 THEN "ValueError:missing data"
  ELSE "process"

\* process_paystack_webhook up to the call of _process_deposit: what it returns
\* or raises, "process" when it goes on to _process_deposit
FrontOutcome(body, signature) ==
  IF signature = NoSignature THEN "ValueError:missing signature"
  ELSE IF ~VerifyPaystackSignature(body, signature)
    THEN "ValueError:invalid signature"
  ELSE IF ~body.json THEN "ValueError:json"
  ELSE IF body.event # "charge.success" THEN "false"
  ELSE IF body.reference = "" \/ body.amount = 0 THEN "ValueError:missing data"
  ELSE "process"

\* mutant: the gate tests for the wrong status
AlreadyProcessedOnlyFailed(status) == status = FAILED

\* the idempotency gate: an already processed transaction is skipped
AlreadyProcessed(status) == status = SUCCESS

\* mutant: the credit is dropped
CreditNothing(balance, amount) == balance

\* wallet.balance += amount
Credit(balance, amount) == balance + amount

\* mutant: the debit is dropped
DebitNothing(balance, amount) == balance

\* sender_wallet.balance -= amount
Debit(balance, amount) == balance - amount

\* mutant: a transfer of the whole balance is refused
InsufficientBalanceAtOrBelow(balance, amount) == balance <= amount

\* mutant: the balance check is off by one
InsufficientBalanceOffByOne(balance, amount) == balance + 1 < amount

\* the balance check of transfer_funds
InsufficientBalance(balance, amount) == balance < amount

\* status written by the session at commit: an UPDATE is emitted only for an
\* attribute whose value differs from the loaded one
WriteStatus(i, loaded, new) ==
  IF loaded = new THEN txs ELSE [txs EXCEPT ![i].status = new]

\* the call returns or raises r; the session, with what it loaded, lives until
\* the response has been sent
Finish(w, r) ==
  /\ pc' = [pc EXCEPT ![w] = "done"]
  /\ result' = [result EXCEPT ![w] = r]
  /\ UNCHANGED loc

\* _process_deposit up to its first commit or second SELECT
WhBegin(w, reference, kobo, pstatus) ==
  /\ pc[w] = "idle"
  /\ requests < MaxRequests
  /\ requests' = requests + 1
  /\ LET i == TxIndex(reference)
         amount == KoboToAmount(kobo)
     IN IF i = 0 THEN Finish(w, "LookupError:transaction")
        ELSE IF AlreadyProcessed(txs[i].status) THEN Finish(w, "false")
        ELSE /\ loc' = [loc EXCEPT ![w] =
                          [op |-> "webhook", reference |-> reference, tx |-> i,
                           amount |-> amount, status |-> txs[i].status,
                           user |-> txs[i].user, balance |-> 0]]
             /\ pc' = [pc EXCEPT ![w] =
                          IF amount # txs[i].amount THEN "wh_mismatch"
                          ELSE IF pstatus = "success" THEN "wh_wallet"
                          ELSE "wh_failed"]
             /\ UNCHANGED result
  /\ UNCHANGED <<wallets, txs, creditLog, keys, now, locks>>

\* process_paystack_webhook: the checks on signature and body, then
\* _process_deposit with the fields of the body
ProcessPaystackWebhook(w, body, signature) ==
  IF FrontOutcome(body, signature) = "process"
  THEN WhBegin(w, body.reference, body.amount, body.status)
  ELSE /\ pc[w] = "idle"
       /\ requests < MaxRequests
       /\ requests' = requests + 1
       /\ pc' = [pc EXCEPT ![w] = "done"]
       /\ result' = [result EXCEPT ![w] = FrontOutcome(body, signature)]
       /\ loc' = [loc EXCEPT ![w] =
                    [op |-> "front", body |-> body, signature |-> signature]]
       /\ UNCHANGED <<wallets, txs, creditLog, keys, now, locks>>

\* mutant: the mismatch is reported but the transaction is left as it was
WhMismatchKeepsStatus(w) ==
  /\ pc[w] = "wh_mismatch"
  /\ Finish(w, "ValueError")
  /\ UNCHANGED <<wallets, txs, creditLog, requests, keys, now, locks>>

\* amount mismatch: transaction.status = FAILED; commit; raise ValueError
WhMismatch(w) ==
  /\ pc[w] = "wh_mismatch"
  /\ txs' = WriteStatus(loc[w].tx, loc[w].status, FAILED)
  /\ Finish(w, "ValueError")
  /\ UNCHANGED <<wallets, creditLog, requests, keys, now, locks>>

\* gateway status is not success: transaction.status = FAILED; commit; return False
WhFailed(w) ==
  /\ pc[w] = "wh_failed"
  /\ txs' = WriteStatus(loc[w].tx, loc[w].status, FAILED)
  /\ Finish(w, "false")
  /\ UNCHANGED <<wallets, creditLog, requests, keys, now, locks>>

\* transaction.status = SUCCESS; SELECT the owner's wallet (scalar_one)
WhWallet(w) ==
  /\ pc[w] = "wh_wallet"
  /\ IF wallets[loc[w].user].exists
     THEN /\ loc' = [loc EXCEPT ![w].balance = wallets[loc[w].user].balance]
          /\ pc' = [pc EXCEPT ![w] = "wh_commit"]
     ELSE /\ pc' = [pc EXCEPT ![w] = "wh_nowallet"]
          /\ UNCHANGED loc
  /\ UNCHANGED <<wallets, txs, result, creditLog, requests, keys, now, locks>>

\* mutant: the credit is committed without the status
WhCommitKeepsStatus(w) ==
  /\ pc[w] = "wh_commit"
  /\ wallets' = [wallets EXCEPT ![loc[w].user].balance =
                    Credit(loc[w].balance, loc[w].amount)]
  /\ creditLog' = [creditLog EXCEPT ![loc[w].reference] = @ + 1]
  /\ Finish(w, "true")
  /\ UNCHANGED <<txs, requests, keys, now, locks>>

\* wallet.balance += amount; commit; log; return True
WhCommit(w) ==
  /\ pc[w] = "wh_commit"
  /\ txs' = WriteStatus(loc[w].tx, loc[w].status, SUCCESS)
  /\ wallets' = [wallets EXCEPT ![loc[w].user].balance =
                    Credit(loc[w].balance, loc[w].amount)]
  /\ creditLog' = [creditLog EXCEPT ![loc[w].reference] = @ + 1]
  /\ Finish(w, "true")
  /\ UNCHANGED <<requests, keys, now, locks>>

\* scalar_one raised NoResultFound: the route turns it into a 500 response and
\* get_db commits the session, with the status assignment still pending in it
WhNoWallet(w) ==
  /\ pc[w] = "wh_nowallet"
  /\ txs' = WriteStatus(loc[w].tx, loc[w].status, SUCCESS)
  /\ Finish(w, "NoResultFound")
  /\ UNCHANGED <<wallets, creditLog, requests, keys, now, locks>>

\* ----------------------------------------------------------------- transfer
\* transfer_funds up to the SELECT of the recipient wallet
TrBegin(w, sender, wn, amount) ==
  /\ pc[w] = "idle"
  /\ requests < MaxRequests
  /\ requests' = requests + 1
  /\ IF amount <= 0 THEN Finish(w, "ValueError:amount")
     ELSE IF ~wallets[sender].exists THEN Finish(w, "ValueError:sender")
     ELSE IF InsufficientBalance(wallets[sender].balance, amount)
          THEN Finish(w, "ValueError:balance")
     ELSE /\ loc' = [loc EXCEPT ![w] =
                       [op |-> "transfer", sender |-> sender, wn |-> wn,
                        amount |-> amount,
                        senderBalance |-> wallets[sender].balance,
                        recipient |-> "none", recipientBalance |-> 0]]
          /\ pc' = [pc EXCEPT ![w] = "tr_recipient"]
          /\ UNCHANGED result
  /\ UNCHANGED <<wallets, txs, creditLog, keys, now, locks>>

\* mutant: the sender is debited and the debit committed before the recipient
\* is looked up
TrRecipientDebitFirst(w) ==
  /\ pc[w] = "tr_recipient"
  /\ LET r == WalletByNumber(loc[w].wn)
         debited == [wallets EXCEPT ![loc[w].sender].balance =
                        Debit(loc[w].senderBalance, loc[w].amount)]
     IN IF r = "none" THEN wallets' = debited /\ Finish(w, "LookupError:recipient")
        ELSE IF r = loc[w].sender
          THEN wallets' = debited /\ Finish(w, "ValueError:self")
        ELSE /\ loc' = [loc EXCEPT ![w].recipient = r,
                                   ![w].recipientBalance = wallets[r].balance]
             /\ pc' = [pc EXCEPT ![w] = "tr_commit"]
             /\ UNCHANGED <<result, wallets>>
  /\ UNCHANGED <<txs, creditLog, requests, keys, now, locks>>

\* SELECT the recipient wallet by wallet number; self-transfer check
TrRecipient(w) ==
  /\ pc[w] = "tr_recipient"
  /\ LET r == WalletByNumber(loc[w].wn)
     IN IF r = "none" THEN Finish(w, "LookupError:recipient")
        ELSE IF r = loc[w].sender THEN Finish(w, "ValueError:self")
        ELSE /\ loc' = [loc EXCEPT ![w].recipient = r,
                                   ![w].recipientBalance = wallets[r].balance]
             /\ pc' = [pc EXCEPT ![w] = "tr_commit"]
             /\ UNCHANGED result
  /\ UNCHANGED <<wallets, txs, creditLog, requests, keys, now, locks>>

\* the values generate_transaction_reference can return, in the order the
\* model hands them out (more of them than any behaviour uses)
GeneratedReferences ==
  <<"TXN1", "TXN2", "TXN3", "TXN4", "TXN5", "TXN6", "TXN7", "TXN8">>

\* numbers of the generated references held by the committed rows and by the
\* sessions that have flushed a row and not yet committed it
ReferenceNumbersInUse ==
  LET held == {txs[i].reference : i \in 1..Len(txs)}
                \cup {loc[v].reference :
                        v \in {x \in Workers : pc[x] = "id_gateway"}}
  IN {n \in 1..Len(GeneratedReferences) : GeneratedReferences[n] \in held}

\* generate_transaction_reference: a reference no transaction has (the least
\* unused number stands for all of them)
FreshReferenceNumber ==
  CHOOSE n \in 1..(Cardinality(ReferenceNumbersInUse) + 1) :
    /\ n \notin ReferenceNumbersInUse
    /\ \A m \in 1..(n - 1) : m \in ReferenceNumbersInUse

\* mutant: the transfer is recorded under the recipient, naming the sender as
\* the recipient user
TransferRecordOwnedByRecipient(sender, recipient, wn, amount, n) ==
  [user |-> recipient, reference |-> GeneratedReferences[n], type |-> TRANSFER,
   amount |-> amount, status |-> SUCCESS,
   recipient_wallet_number |-> wn, recipient_user_id |-> sender,
   authorization_url |-> "none"]

\* the Transaction row a successful transfer inserts
TransferRecord(sender, recipient, wn, amount, n) ==
  [user |-> sender, reference |-> GeneratedReferences[n], type |-> TRANSFER,
   amount |-> amount, status |-> SUCCESS,
   recipient_wallet_number |-> wn, recipient_user_id |-> recipient,
   authorization_url |-> "none"]

\* debit, credit, insert the Transaction, commit
TrCommit(w) ==
  /\ pc[w] = "tr_commit"
  /\ wallets' = [wallets EXCEPT
        ![loc[w].sender].balance = Debit(loc[w].senderBalance, loc[w].amount),
        ![loc[w].recipient].balance = Credit(loc[w].recipientBalance, loc[w].amount)]
  /\ txs' = Append(txs, TransferRecord(loc[w].sender, loc[w].recipient,
                                       loc[w].wn, loc[w].amount,
                                       FreshReferenceNumber))
  /\ Finish(w, "success")
  /\ UNCHANGED <<creditLog, requests, keys, now, locks>>

\* ------------------------------------------------------------------ deposit
\* the Transaction row initiate_deposit adds to its session
DepositRecord(user, reference, amount) ==
  [user |-> user, reference |-> reference, type |-> DEPOSIT,
   amount |-> amount, status |-> PENDING,
   recipient_wallet_number |-> "none", recipient_user_id |-> "none",
   authorization_url |-> "none"]

\* initiate_deposit: amount check, reference, db.add and db.flush: the INSERT
\* is sent inside the session's open transaction and is not committed
IdBegin(w, user, amount) ==
  /\ pc[w] = "idle"
  /\ requests < MaxRequests
  /\ requests' = requests + 1
  /\ IF amount <= 0
     THEN /\ pc' = [pc EXCEPT ![w] = "done"]
          /\ result' = [result EXCEPT ![w] = "deposit/ValueError:amount"]
          /\ loc' = [loc EXCEPT ![w] =
                       [op |-> "deposit", user |-> user, amount |-> amount,
                        reference |-> "none"]]
     ELSE /\ pc' = [pc EXCEPT ![w] = "id_gateway"]
          /\ loc' = [loc EXCEPT ![w] =
                       [op |-> "deposit", user |-> user, amount |-> amount,
                        reference |-> GeneratedReferences[FreshReferenceNumber]]]
          /\ UNCHANGED result
  /\ UNCHANGED <<wallets, txs, creditLog, keys, now, locks>>

\* mutant: the wallet is credited as soon as the gateway has accepted the
\* initialization
IdGatewayCredits(w, outcome) ==
  /\ pc[w] = "id_gateway"
  /\ LET row == DepositRecord(loc[w].user, loc[w].reference, loc[w].amount)
     IN CASE outcome = "ok" ->
               /\ txs' = Append(txs, [row EXCEPT !.authorization_url = "url"])
               /\ wallets' = [wallets EXCEPT ![loc[w].user].balance =
                                 Credit(@, loc[w].amount)]
               /\ Finish(w, "deposit/initiated")
          [] outcome = "error" ->
               /\ txs' = Append(txs, row)
               /\ UNCHANGED wallets
               /\ Finish(w, "deposit/Exception:gateway")
          [] OTHER ->
               /\ UNCHANGED <<txs, wallets>>
               /\ Finish(w, "deposit/cancelled")
  /\ UNCHANGED <<creditLog, requests, keys, now, locks>>

\* initiate_deposit: the gateway call made while the transaction is open, and
\* what follows it.  The call returns: the URL is set on the row and db.commit
\* stores the row.  The call raises: the route answers 500 and get_db commits
\* the session, which stores the flushed row without URL.  The request is
\* cancelled: get_db closes the session and the flushed row is rolled back.
IdGateway(w, outcome) ==
  /\ pc[w] = "id_gateway"
  /\ LET row == DepositRecord(loc[w].user, loc[w].reference, loc[w].amount)
     IN CASE outcome = "ok" ->
               /\ txs' = Append(txs, [row EXCEPT !.authorization_url = "url"])
               /\ Finish(w, "deposit/initiated")
          [] outcome = "error" ->
               /\ txs' = Append(txs, row)
               /\ Finish(w, "deposit/Exception:gateway")
          [] OTHER ->
               /\ UNCHANGED txs
               /\ Finish(w, "deposit/cancelled")
  /\ UNCHANGED <<wallets, creditLog, requests, keys, now, locks>>

\* ------------------------------------------------------------------- queries
\* mutant: the lookup is scoped to the reference only
DepositIndexAnyOwnerAnyType(user, reference) ==
  TxIndex(reference)

\* get_deposit_status: the row with this reference, owned by this user, of
\* type DEPOSIT; 0 when there is none
DepositIndex(user, reference) ==
  LET i == TxIndex(reference)
  IN IF i # 0 /\ txs[i].user = user /\ txs[i].type = DEPOSIT THEN i ELSE 0

\* get_deposit_status: one SELECT, then the response or LookupError
GetDepositStatus(w, user, reference) ==
  /\ pc[w] = "idle"
  /\ requests < MaxRequests
  /\ requests' = requests + 1
  /\ pc' = [pc EXCEPT ![w] = "done"]
  /\ LET i == DepositIndex(user, reference)
     IN /\ result' = [result EXCEPT ![w] =
                        IF i = 0 THEN "status/LookupError" ELSE "status"]
        /\ loc' = [loc EXCEPT ![w] =
                     [op |-> "status", user |-> user, reference |-> reference,
                      returned |-> IF i = 0 THEN <<>>
                                   ELSE <<txs[i].reference, txs[i].status,
                                          txs[i].amount>>]]
  /\ UNCHANGED <<wallets, txs, creditLog, keys, now, locks>>

\* mutant: user_id is not unique, so an INSERT never waits for another one
WalletFlushedByOtherNotUnique(w, user) ==
  FALSE

\* some other session has flushed a wallet row for this user and not yet
\* committed it
WalletFlushedByOther(w, user) ==
  \E v \in Workers \ {w} : pc[v] = "gb_commit" /\ loc[v].user = user

\* get_balance: get_or_create_wallet selects the wallet of the user
GbBegin(w, user) ==
  /\ pc[w] = "idle"
  /\ requests < MaxRequests
  /\ requests' = requests + 1
  /\ IF wallets[user].exists
     THEN /\ pc' = [pc EXCEPT ![w] = "done"]
          /\ result' = [result EXCEPT ![w] = "balance"]
          /\ loc' = [loc EXCEPT ![w] = [op |-> "balance", user |-> user,
                                        returned |-> wallets[user].balance]]
     ELSE /\ pc' = [pc EXCEPT ![w] = "gb_flush"]
          /\ loc' = [loc EXCEPT ![w] = [op |-> "balance", user |-> user,
                                        returned |-> 0]]
          /\ UNCHANGED result
  /\ UNCHANGED <<wallets, txs, creditLog, keys, now, locks>>

\* get_or_create_wallet: Wallet(user_id), db.add, db.flush; the INSERT waits
\* for a session that has flushed a wallet of the same user and fails on the
\* unique user_id when that wallet is committed
GbFlush(w) ==
  /\ pc[w] = "gb_flush"
  /\ ~WalletFlushedByOther(w, loc[w].user)
  /\ IF wallets[loc[w].user].exists
     THEN Finish(w, "balance/IntegrityError")
     ELSE pc' = [pc EXCEPT ![w] = "gb_commit"] /\ UNCHANGED <<result, loc>>
  /\ UNCHANGED <<wallets, txs, creditLog, requests, keys, now, locks>>

\* get_balance returns the balance of the new wallet (column default 0) and
\* get_db commits the flushed row
GbCommit(w) ==
  /\ pc[w] = "gb_commit"
  /\ wallets' = [wallets EXCEPT ![loc[w].user] = [exists |-> TRUE, balance |-> 0]]
  /\ Finish(w, "balance")
  /\ UNCHANGED <<txs, creditLog, requests, keys, now, locks>>

RECURSIVE NewestFirst(_, _)
\* the rows of this user among the first n, in descending order of creation
NewestFirst(user, n) ==
  IF n = 0 THEN <<>>
  ELSE IF txs[n].user = user THEN <<txs[n]>> \o NewestFirst(user, n - 1)
  ELSE NewestFirst(user, n - 1)

\* get_transactions: one SELECT ... WHERE user_id ORDER BY created_at DESC
GetTransactions(w, user) ==
  /\ pc[w] = "idle"
  /\ requests < MaxRequests
  /\ requests' = requests + 1
  /\ pc' = [pc EXCEPT ![w] = "done"]
  /\ result' = [result EXCEPT ![w] = "transactions"]
  /\ loc' = [loc EXCEPT ![w] = [op |-> "transactions", user |-> user,
                                returned |-> NewestFirst(user, Len(txs))]]
  /\ UNCHANGED <<wallets, txs, creditLog, keys, now, locks>>

\* ----------------------------------------------------------------- api keys
\* APIKeyService.MAX_ACTIVE_KEYS
MAX_ACTIVE_KEYS == 5

\* APIKeyService.MAX_RETRY_ATTEMPTS
MAX_RETRY_ATTEMPTS == 5

\* users that manage API keys
KeyUsers == {"u1", "u2"}

\* (user, name, permissions) a create request may carry
CreateInputs ==
  { [user |-> "u1", name |-> "k1", permissions |-> {"read"}],
    [user |-> "u1", name |-> "k2", permissions |-> {"deposit", "transfer"}],
    [user |-> "u2", name |-> "k2", permissions |-> {"read"}] }

\* expiry strings a request may carry; "1h" is not in the vocabulary
ExpiryInputs == {"1H", "1h"}

\* mutant: the comparison ignores the case of the unit letter
ExpiryOffsetIgnoringCase(expiry) ==
  IF expiry \in {"1H", "1h"} THEN 1
  ELSE IF expiry \in {"1D", "1d"} THEN 24
  ELSE IF expiry \in {"1M", "1m"} THEN 30 * 24
  ELSE IF expiry \in {"1Y", "1y"} THEN 365 * 24
  ELSE -1

\* parse_expiry: the offset in hours, -1 for a string that raises ValueError
ExpiryOffset(expiry) ==
  IF expiry = "1H" THEN 1
  ELSE IF expiry = "1D" THEN 24
  ELSE IF expiry = "1M" THEN 30 * 24
  ELSE IF expiry = "1Y" THEN 365 * 24
  ELSE -1

\* hash_api_key: a one-way digest, injective on the secrets of the model
HashApiKey(secret) == <<"sha256", secret>>

\* the WHERE clause of the count that decides the quota check
CountedByQuota(k, user) ==
  /\ k.user = user
  /\ k.is_active
  /\ k.is_revoked
  /\ k.expires_at > now

\* rows the quota count selects (and locks: with_for_update)
QuotaRows(user) == {i \in 1..Len(keys) : CountedByQuota(keys[i], user)}

\* active_count = result.scalar()
CountActiveKeys(user) == Cardinality(QuotaRows(user))

\* some row of the set is locked by another worker's transaction
LockedByOther(w, rows) == \E v \in Workers \ {w} : locks[v] \cap rows # {}

\* hashes of the committed rows and of the rows other sessions have flushed
CommittedHashes == {keys[i].key_hash : i \in 1..Len(keys)}

FlushedByOther(w) ==
  {HashApiKey(loc[v].secret) :
     v \in {x \in Workers \ {w} : pc[x] \in {"ck_commit", "ro_commit"}}}

\* secrets generate_api_key may return: one that hashes to no stored or flushed
\* hash (the least such number stands for all of them) or one that collides
\* with a committed row
SecretsInUse ==
  {keys[i].key_hash[2] : i \in 1..Len(keys)}
    \cup {loc[v].secret : v \in {x \in Workers : pc[x] \in {"ck_commit", "ro_commit"}}}

FreshSecret == CHOOSE n \in 1..(Cardinality(SecretsInUse) + 1) : n \notin SecretsInUse

SecretDraws == {FreshSecret} \cup {keys[i].key_hash[2] : i \in 1..Len(keys)}

\* APIKey(user_id, name, key_hash, permissions, expires_at) with column defaults
KeyRecord(user, name, secret, permissions, expires_at) ==
  [user |-> user, name |-> name, key_hash |-> HashApiKey(secret),
   permissions |-> permissions, is_active |-> TRUE, is_revoked |-> FALSE,
   expires_at |-> expires_at]

\* mutant: the new key does not inherit the permissions
RolloverRecordNoPermissions(old, secret, expires_at) ==
  KeyRecord(old.user, old.name, secret, {}, expires_at)

\* the record rollover inserts: name and permissions of the expired key
RolloverRecord(old, secret, expires_at) ==
  KeyRecord(old.user, old.name, secret, old.permissions, expires_at)

\* the transaction ends (commit or rollback): its row locks are released
Release(w) == locks' = [locks EXCEPT ![w] = {}]

\* create_api_key: parse_expiry
CkBegin(w, user, name, permissions, expiry) ==
  /\ pc[w] = "idle"
  /\ requests < MaxRequests
  /\ requests' = requests + 1
  /\ IF ExpiryOffset(expiry) < 0
     THEN /\ pc' = [pc EXCEPT ![w] = "done"]
          /\ result' = [result EXCEPT ![w] = "create/ValueError:expiry"]
          /\ loc' = [loc EXCEPT ![w] =
                       [op |-> "create", user |-> user, expiry |-> expiry]]
     ELSE /\ loc' = [loc EXCEPT ![w] =
                       [op |-> "create", user |-> user, name |-> name,
                        permissions |-> permissions, expiry |-> expiry,
                        called_at |-> now,
                        expires_at |-> now + ExpiryOffset(expiry),
                        active_count |-> 0, attempt |-> 0, secret |-> 0]]
          /\ pc' = [pc EXCEPT ![w] = "ck_count"]
          /\ UNCHANGED result
  /\ UNCHANGED <<wallets, txs, creditLog, keys, now, locks>>

\* create_api_key: begin, SELECT count(...) FOR UPDATE, quota check
CkCount(w) ==
  /\ pc[w] = "ck_count"
  /\ ~LockedByOther(w, QuotaRows(loc[w].user))
  /\ IF CountActiveKeys(loc[w].user) >= MAX_ACTIVE_KEYS
     THEN Finish(w, "create/ValueError:quota") /\ Release(w)
     ELSE /\ loc' = [loc EXCEPT ![w].active_count = CountActiveKeys(loc[w].user)]
          /\ pc' = [pc EXCEPT ![w] = "ck_insert"]
          /\ locks' = [locks EXCEPT ![w] = @ \cup QuotaRows(loc[w].user)]
          /\ UNCHANGED result
  /\ UNCHANGED <<wallets, txs, creditLog, requests, keys, now>>

\* mutant: the loop gives up one collision later
AttemptOneMore(w, secret, next, exhausted) ==
  /\ HashApiKey(secret) \notin FlushedByOther(w)
  /\ IF HashApiKey(secret) \in CommittedHashes
     THEN /\ Release(w)
          /\ IF loc[w].attempt = MAX_RETRY_ATTEMPTS
             THEN Finish(w, exhausted)
             ELSE /\ loc' = [loc EXCEPT ![w].attempt = @ + 1]
                  /\ UNCHANGED <<pc, result>>
     ELSE /\ loc' = [loc EXCEPT ![w].secret = secret]
          /\ pc' = [pc EXCEPT ![w] = next]
          /\ UNCHANGED <<result, locks>>
  /\ UNCHANGED <<wallets, txs, creditLog, requests, keys, now>>

\* one pass of the retry loop: generate, add, flush; IntegrityError rolls back
Attempt(w, secret, next, exhausted) ==
  /\ HashApiKey(secret) \notin FlushedByOther(w)
  /\ IF HashApiKey(secret) \in CommittedHashes
     THEN /\ Release(w)
          /\ IF loc[w].attempt = MAX_RETRY_ATTEMPTS - 1
             THEN Finish(w, exhausted)
             ELSE /\ loc' = [loc EXCEPT ![w].attempt = @ + 1]
                  /\ UNCHANGED <<pc, result>>
     ELSE /\ loc' = [loc EXCEPT ![w].secret = secret]
          /\ pc' = [pc EXCEPT ![w] = next]
          /\ UNCHANGED <<result, locks>>
  /\ UNCHANGED <<wallets, txs, creditLog, requests, keys, now>>

\* create_api_key: the retry loop
CkInsert(w, secret) ==
  /\ pc[w] = "ck_insert"
  /\ Attempt(w, secret, "ck_commit", "create/ValueError:exhausted")

\* create_api_key: leaving the transaction block commits the flushed row
CkCommit(w) ==
  /\ pc[w] = "ck_commit"
  /\ keys' = Append(keys, KeyRecord(loc[w].user, loc[w].name, loc[w].secret,
                                    loc[w].permissions, loc[w].expires_at))
  /\ Release(w)
  /\ Finish(w, "created")
  /\ UNCHANGED <<wallets, txs, creditLog, requests, now>>

\* rollover_api_key: parse_expiry
RoBegin(w, user, key_id, expiry) ==
  /\ pc[w] = "idle"
  /\ requests < MaxRequests
  /\ requests' = requests + 1
  /\ IF ExpiryOffset(expiry) < 0
     THEN /\ pc' = [pc EXCEPT ![w] = "done"]
          /\ result' = [result EXCEPT ![w] = "rollover/ValueError:expiry"]
          /\ loc' = [loc EXCEPT ![w] =
                       [op |-> "rollover", user |-> user, key_id |-> key_id,
                        expiry |-> expiry]]
     ELSE /\ loc' = [loc EXCEPT ![w] =
                       [op |-> "rollover", user |-> user, key_id |-> key_id,
                        expiry |-> expiry, called_at |-> now,
                        expires_at |-> now + ExpiryOffset(expiry),
                        active_count |-> 0, attempt |-> 0, secret |-> 0]]
          /\ pc' = [pc EXCEPT ![w] = "ro_select"]
          /\ UNCHANGED result
  /\ UNCHANGED <<wallets, txs, creditLog, keys, now, locks>>

\* mutant: the lookup is not scoped to the caller
OwnKeyOfAnyUser(key_id, user) == key_id \in 1..Len(keys)

\* the row with this id owned by this user exists
OwnKey(key_id, user) == key_id \in 1..Len(keys) /\ keys[key_id].user = user

\* the expiry check of rollover_api_key: expires_at > now
KeyNotExpiredYet(k) == k.expires_at > now

\* rollover_api_key: begin, SELECT the key FOR UPDATE, expiry and revoked checks
RoSelect(w) ==
  /\ pc[w] = "ro_select"
  /\ ~LockedByOther(w, {loc[w].key_id})
  /\ IF ~OwnKey(loc[w].key_id, loc[w].user)
     THEN Finish(w, "rollover/LookupError") /\ Release(w)
     ELSE IF KeyNotExpiredYet(keys[loc[w].key_id])
     THEN Finish(w, "rollover/ValueError:notexpired") /\ Release(w)
     ELSE IF keys[loc[w].key_id].is_revoked
     THEN Finish(w, "rollover/ValueError:revoked") /\ Release(w)
     ELSE /\ pc' = [pc EXCEPT ![w] = "ro_count"]
          /\ locks' = [locks EXCEPT ![w] = @ \cup {loc[w].key_id}]
          /\ UNCHANGED <<loc, result>>
  /\ UNCHANGED <<wallets, txs, creditLog, requests, keys, now>>

\* mutant: the expired key is revoked (and the revoke committed) before the
\* quota check
RoCountRevokesFirst(w) ==
  /\ pc[w] = "ro_count"
  /\ ~LockedByOther(w, QuotaRows(loc[w].user))
  /\ IF CountActiveKeys(loc[w].user) >= MAX_ACTIVE_KEYS
     THEN /\ Finish(w, "rollover/ValueError:quota")
          /\ Release(w)
          /\ keys' = [keys EXCEPT ![loc[w].key_id].is_revoked = TRUE]
     ELSE /\ loc' = [loc EXCEPT ![w].active_count = CountActiveKeys(loc[w].user)]
          /\ pc' = [pc EXCEPT ![w] = "ro_insert"]
          /\ locks' = [locks EXCEPT ![w] = @ \cup QuotaRows(loc[w].user)]
          /\ UNCHANGED <<result, keys>>
  /\ UNCHANGED <<wallets, txs, creditLog, requests, now>>

\* rollover_api_key: SELECT count(...) FOR UPDATE, quota check
RoCount(w) ==
  /\ pc[w] = "ro_count"
  /\ ~LockedByOther(w, QuotaRows(loc[w].user))
  /\ IF CountActiveKeys(loc[w].user) >= MAX_ACTIVE_KEYS
     THEN Finish(w, "rollover/ValueError:quota") /\ Release(w)
     ELSE /\ loc' = [loc EXCEPT ![w].active_count = CountActiveKeys(loc[w].user)]
          /\ pc' = [pc EXCEPT ![w] = "ro_insert"]
          /\ locks' = [locks EXCEPT ![w] = @ \cup QuotaRows(loc[w].user)]
          /\ UNCHANGED result
  /\ UNCHANGED <<wallets, txs, creditLog, requests, keys, now>>

\* rollover_api_key: the retry loop
RoInsert(w, secret) ==
  /\ pc[w] = "ro_insert"
  /\ Attempt(w, secret, "ro_commit", "rollover/ValueError:exhausted")

\* mutant: the rollover renews the expired key in place
RoCommitRenewsInPlace(w) ==
  /\ pc[w] = "ro_commit"
  /\ ~LockedByOther(w, {loc[w].key_id})
  /\ keys' = [keys EXCEPT ![loc[w].key_id].expires_at = loc[w].expires_at]
  /\ Release(w)
  /\ Finish(w, "rolled")
  /\ UNCHANGED <<wallets, txs, creditLog, requests, now>>

\* rollover_api_key: expired_key.is_revoked = True; leaving the block commits
\* the flushed row and the UPDATE of the expired key's row
RoCommit(w) ==
  /\ pc[w] = "ro_commit"
  /\ ~LockedByOther(w, {loc[w].key_id})
  /\ keys' = Append([keys EXCEPT ![loc[w].key_id].is_revoked = TRUE],
                    RolloverRecord(keys[loc[w].key_id], loc[w].secret,
                                   loc[w].expires_at))
  /\ Release(w)
  /\ Finish(w, "rolled")
  /\ UNCHANGED <<wallets, txs, creditLog, requests, now>>

\* mutant: revoking a revoked key is a silent no-op that reports success
RvBeginSilent(w, user, key_id) ==
  /\ pc[w] = "idle"
  /\ requests < MaxRequests
  /\ requests' = requests + 1
  /\ ~LockedByOther(w, {key_id})
  /\ IF ~OwnKey(key_id, user) THEN Finish(w, "revoke/LookupError") /\ UNCHANGED locks
     ELSE IF keys[key_id].is_revoked
     THEN Finish(w, "revoked") /\ UNCHANGED locks
     ELSE /\ loc' = [loc EXCEPT ![w] =
                       [op |-> "revoke", user |-> user, key_id |-> key_id]]
          /\ pc' = [pc EXCEPT ![w] = "rv_commit"]
          /\ locks' = [locks EXCEPT ![w] = {key_id}]
          /\ UNCHANGED result
  /\ UNCHANGED <<wallets, txs, creditLog, keys, now>>

\* revoke_api_key: begin, SELECT the key FOR UPDATE, revoked check
RvBegin(w, user, key_id) ==
  /\ pc[w] = "idle"
  /\ requests < MaxRequests
  /\ requests' = requests + 1
  /\ ~LockedByOther(w, {key_id})
  /\ IF ~OwnKey(key_id, user) THEN Finish(w, "revoke/LookupError") /\ UNCHANGED locks
     ELSE IF keys[key_id].is_revoked
     THEN Finish(w, "revoke/ValueError:revoked") /\ UNCHANGED locks
     ELSE /\ loc' = [loc EXCEPT ![w] =
                       [op |-> "revoke", user |-> user, key_id |-> key_id]]
          /\ pc' = [pc EXCEPT ![w] = "rv_commit"]
          /\ locks' = [locks EXCEPT ![w] = {key_id}]
          /\ UNCHANGED result
  /\ UNCHANGED <<wallets, txs, creditLog, keys, now>>

\* revoke_api_key: api_key.is_revoked = True; leaving the block commits
RvCommit(w) ==
  /\ pc[w] = "rv_commit"
  /\ keys' = [keys EXCEPT ![loc[w].key_id].is_revoked = TRUE]
  /\ Release(w)
  /\ Finish(w, "revoked")
  /\ UNCHANGED <<wallets, txs, creditLog, requests, now>>

\* ------------------------------------------------------------------- auth
\* the permissions the ledger routes are guarded by
PermissionInputs == {"read", "deposit", "transfer"}

\* User.is_active: the column default is True and nothing in the program
\* clears it
UserIsActive(user) == TRUE

\* SELECT APIKey WHERE key_hash = :key_hash; 0 when there is no such row
KeyByHash(hash) ==
  IF \E i \in 1..Len(keys) : keys[i].key_hash = hash
  THEN CHOOSE i \in 1..Len(keys) : keys[i].key_hash = hash
  ELSE 0

\* mutant: a key is still accepted at the instant it expires
KeyExpiredAfterInstant(k) == k.expires_at < now

\* the expiry check of the resolver: expires_at <= now
KeyExpired(k) == k.expires_at <= now

\* mutant: the resolver does not look at the revoked flag
ApiKeyOutcomeIgnoresRevoked(secret) ==
  IF secret = 0 THEN "401:format"
  ELSE LET i == KeyByHash(HashApiKey(secret))
       IN IF i = 0 THEN "401:notfound"
          ELSE IF ~keys[i].is_active THEN "401:inactive"
          ELSE IF KeyExpired(keys[i]) THEN "401:expired"
          ELSE IF ~UserIsActive(keys[i].user) THEN "401:user"
          ELSE "ok"

\* get_current_user_from_api_key: the checks in their order; secret 0 stands
\* for a value that does not start with sk_live_
ApiKeyOutcome(secret) ==
  IF secret = 0 THEN "401:format"
  ELSE LET i == KeyByHash(HashApiKey(secret))
       IN IF i = 0 THEN "401:notfound"
          ELSE IF keys[i].is_revoked THEN "401:revoked"
          ELSE IF ~keys[i].is_active THEN "401:inactive"
          ELSE IF KeyExpired(keys[i]) THEN "401:expired"
          ELSE IF ~UserIsActive(keys[i].user) THEN "401:user"
          ELSE "ok"

\* get_current_user_from_jwt: a token that does not decode is refused
JwtOutcome(user) ==
  IF user = "invalid" THEN "401:jwt"
  ELSE IF ~UserIsActive(user) THEN "401:user"
  ELSE "ok"

\* credentials a request may carry: a JWT of u1, a JWT that does not decode,
\* a malformed key, the secret of a stored key, a secret no key has
CredentialInputs ==
  {[kind |-> "jwt", user |-> u, secret |-> 0] : u \in {"u1", "invalid"}}
    \cup {[kind |-> "key", user |-> "none", secret |-> n] :
            n \in {0, FreshSecret} \cup {keys[i].key_hash[2] : i \in 1..Len(keys)}}

\* mutant: every authenticated request passes the permission check
PermissionDeniedNever(credential, permission) == FALSE

\* check_permission: a JWT user has every permission, an API key only its own
PermissionDenied(credential, permission) ==
  /\ credential.kind = "key"
  /\ permission \notin keys[KeyByHash(HashApiKey(credential.secret))].permissions

\* get_current_user: the outcome of the resolver the credential goes to
CredentialOutcome(credential) ==
  IF credential.kind = "jwt" THEN JwtOutcome(credential.user)
  ELSE ApiKeyOutcome(credential.secret)

\* the user an accepted credential resolves to
ResolvedUser(credential) ==
  IF credential.kind = "jwt" THEN credential.user
  ELSE keys[KeyByHash(HashApiKey(credential.secret))].user

\* get_current_user followed by require_permission(permission), as the
\* ledger routes declare it: the response of a request that is refused, or
\* the return of the user to the route
Authenticate(w, credential, permission) ==
  /\ pc[w] = "idle"
  /\ requests < MaxRequests
  /\ requests' = requests + 1
  /\ pc' = [pc EXCEPT ![w] = "done"]
  /\ LET outcome == CredentialOutcome(credential)
     IN /\ result' = [result EXCEPT ![w] =
                        IF outcome # "ok" THEN "auth/" \o outcome
                        ELSE IF PermissionDenied(credential, permission)
                        THEN "auth/403"
                        ELSE "auth/ok"]
        /\ loc' = [loc EXCEPT ![w] =
                     [op |-> "auth", kind |-> credential.kind,
                      secret |-> credential.secret,
                      permission |-> permission,
                      user |-> IF outcome # "ok" THEN "none"
                               ELSE ResolvedUser(credential)]]
  /\ UNCHANGED <<wallets, txs, creditLog, keys, now, locks>>

\* POST /wallet/transfer: require_permission("transfer"), then transfer_funds
\* for the resolved user
RouteTransfer(w, credential, wn, amount) ==
  /\ CredentialOutcome(credential) = "ok"
  /\ ~PermissionDenied(credential, "transfer")
  /\ TrBegin(w, ResolvedUser(credential), wn, amount)

\* GET /wallet/balance: require_permission("read"), then get_balance for the
\* resolved user
RouteBalance(w, credential) ==
  /\ CredentialOutcome(credential) = "ok"
  /\ ~PermissionDenied(credential, "read")
  /\ GbBegin(w, ResolvedUser(credential))

\* the key routes: get_current_user resolves the API key to its user, and the
\* service is called for that user with the values of the request
RouteCreate(w, secret, name, permissions, expiry) ==
  /\ ApiKeyOutcome(secret) = "ok"
  /\ CkBegin(w, keys[KeyByHash(HashApiKey(secret))].user, name, permissions,
             expiry)

RouteRollover(w, secret, key_id, expiry) ==
  /\ ApiKeyOutcome(secret) = "ok"
  /\ RoBegin(w, keys[KeyByHash(HashApiKey(secret))].user, key_id, expiry)

RouteRevoke(w, secret, key_id) ==
  /\ ApiKeyOutcome(secret) = "ok"
  /\ RvBegin(w, keys[KeyByHash(HashApiKey(secret))].user, key_id)

\* an hour passes
Tick ==
  /\ requests < MaxRequests
  /\ requests' = requests + 1
  /\ now' = now + 1
  /\ UNCHANGED <<wallets, txs, pc, loc, result, creditLog, keys, locks>>

\* the response has been sent and the session closed; the worker takes the
\* next request
Return(w) ==
  /\ pc[w] = "done"
  /\ pc' = [pc EXCEPT ![w] = "idle"]
  /\ result' = [result EXCEPT ![w] = "none"]
  /\ loc' = [loc EXCEPT ![w] = NoLoc]
  /\ UNCHANGED <<wallets, txs, creditLog, requests, keys, now, locks>>

\* ------------------------------------------------------------ specification

\* balances the behaviours start from: u1 holds one hundredth, the others nothing
InitBalance(u) == IF u = "u1" THEN 1 ELSE 0

\* the PENDING deposits the behaviours start from (initiate_deposit has run twice)
InitDeposits ==
  <<[DepositRecord("u1", "r1", 2) EXCEPT !.authorization_url = "url"],
    [DepositRecord("u3", "r2", 1) EXCEPT !.authorization_url = "url"]>>

\* every user was created with a wallet, except that u3's may be missing
Init ==
  /\ wallets \in {[u \in Users |->
                     [exists |-> (u # "u3" \/ e), balance |-> InitBalance(u)]]
                  : e \in BOOLEAN}
  /\ txs = InitDeposits
  /\ pc = [w \in Workers |-> "idle"]
  /\ loc = [w \in Workers |-> NoLoc]
  /\ result = [w \in Workers |-> "none"]
  /\ creditLog = [r \in {"r1", "r2"} |-> 0]
  /\ requests = 0
  /\ keys = <<>>
  /\ now = 0
  /\ locks = [w \in Workers |-> {}]

LedgerStep(w) ==
  \/ \E in \in WebhookInputs : ProcessPaystackWebhook(w, in[1], in[2])
  \/ WhMismatch(w)
  \/ WhFailed(w)
  \/ WhWallet(w)
  \/ WhCommit(w)
  \/ WhNoWallet(w)
  \/ \E sender \in Users, wn \in WalletNumberInputs,
        amount \in TransferAmountInputs : TrBegin(w, sender, wn, amount)
  \/ TrRecipient(w)
  \/ TrCommit(w)
  \/ Return(w)

Next == \E w \in Workers : LedgerStep(w)

Spec == Init /\ [][Next]_vars

\* requests handled one after the other: a worker steps only while no other
\* request is in progress
Alone(w) == \A v \in Workers \ {w} : pc[v] = "idle"

SeqNext ==
  \E w \in Workers :
    \/ \E in \in WebhookInputs :
            Alone(w) /\ ProcessPaystackWebhook(w, in[1], in[2])
    \/ Alone(w) /\ WhMismatch(w)
    \/ Alone(w) /\ WhFailed(w)
    \/ Alone(w) /\ WhWallet(w)
    \/ Alone(w) /\ WhCommit(w)
    \/ Alone(w) /\ WhNoWallet(w)
    \/ \E sender \in Users, wn \in WalletNumberInputs,
          amount \in TransferAmountInputs :
            Alone(w) /\ TrBegin(w, sender, wn, amount)
    \/ Alone(w) /\ TrRecipient(w)
    \/ Alone(w) /\ TrCommit(w)
    \/ Alone(w) /\ Return(w)

SeqSpec == Init /\ [][SeqNext]_vars

\* the authenticated ledger operations (every operation but the webhook),
\* requests interleaved
OpsStep(w) ==
  \/ \E user \in Users, amount \in DepositAmountInputs : IdBegin(w, user, amount)
  \/ \E outcome \in GatewayOutcomes : IdGateway(w, outcome)
  \/ \E user \in Users, reference \in ReferenceInputs :
        GetDepositStatus(w, user, reference)
  \/ \E user \in Users, i \in (Len(InitDeposits) + 1)..Len(txs) :
        GetDepositStatus(w, user, txs[i].reference)
  \/ \E user \in Users : GbBegin(w, user)
  \/ GbFlush(w)
  \/ GbCommit(w)
  \/ \E user \in Users : GetTransactions(w, user)
  \/ \E sender \in Users, wn \in WalletNumberInputs,
        amount \in TransferAmountInputs : TrBegin(w, sender, wn, amount)
  \/ TrRecipient(w)
  \/ TrCommit(w)
  \/ Return(w)

OpsNext == \E w \in Workers : OpsStep(w)

OpsSpec == Init /\ [][OpsNext]_vars

\* ids a rollover or revoke request may name: every stored row and one more
KeyIdInputs == 1..(Len(keys) + 1)

\* key tables the behaviours start from, each reachable by create and revoke
\* calls and the passing of time: no key; one expired key of u1; five live
\* keys of u1; five revoked unexpired keys of u1 with an expired key and a key
\* both expired and revoked
SeedKey(revoked, expires_at, n) ==
  [KeyRecord("u1", "k1", n, {"read"}, expires_at) EXCEPT !.is_revoked = revoked]

KeySeeds ==
  { <<SeedKey(FALSE, 0, 1)>>,
    [n \in 1..MAX_ACTIVE_KEYS |-> SeedKey(FALSE, 24, n)],
    [n \in 1..(MAX_ACTIVE_KEYS + 2) |->
       IF n <= MAX_ACTIVE_KEYS THEN SeedKey(TRUE, 24, n)
       ELSE SeedKey(n = MAX_ACTIVE_KEYS + 2, 0, n)] }

KeyInit ==
  /\ wallets = [u \in Users |-> [exists |-> TRUE, balance |-> InitBalance(u)]]
  /\ txs = InitDeposits
  /\ pc = [w \in Workers |-> "idle"]
  /\ loc = [w \in Workers |-> NoLoc]
  /\ result = [w \in Workers |-> "none"]
  /\ creditLog = [r \in {"r1", "r2"} |-> 0]
  /\ \/ keys = <<>> /\ requests = 0
     \/ keys \in KeySeeds /\ requests = MaxRequests - SeedRequests
  /\ now = 0
  /\ locks = [w \in Workers |-> {}]

KeyNext ==
  \/ \E w \in Workers :
       \/ \E c \in CreateInputs, expiry \in ExpiryInputs :
               CkBegin(w, c.user, c.name, c.permissions, expiry)
       \/ CkCount(w)
       \/ \E secret \in SecretDraws : CkInsert(w, secret)
       \/ CkCommit(w)
       \/ \E user \in KeyUsers, key_id \in KeyIdInputs, expiry \in ExpiryInputs :
               RoBegin(w, user, key_id, expiry)
       \/ RoSelect(w)
       \/ RoCount(w)
       \/ \E secret \in SecretDraws : RoInsert(w, secret)
       \/ RoCommit(w)
       \/ \E user \in KeyUsers, key_id \in KeyIdInputs : RvBegin(w, user, key_id)
       \/ RvCommit(w)
       \/ Return(w)
  \/ Tick

KeySpec == KeyInit /\ [][KeyNext]_vars

\* expiry strings of every kind: the four codes, lower-case variants, a bare
\* number, another count and the empty string
ExpiryCodeInputs ==
  {"1H", "1D", "1M", "1Y", "1h", "1y", "1", "2H", ""}

\* create and rollover requests with every kind of expiry string, handled one
\* after the other, on a table holding one expired key
ExpiryInit ==
  /\ KeyInit
  /\ keys = <<SeedKey(FALSE, 0, 1)>>

ExpiryNext ==
  \/ \E w \in Workers :
       \/ \E c \in CreateInputs, expiry \in ExpiryCodeInputs :
               Alone(w) /\ CkBegin(w, c.user, c.name, c.permissions, expiry)
       \/ Alone(w) /\ CkCount(w)
       \/ \E secret \in SecretDraws : Alone(w) /\ CkInsert(w, secret)
       \/ Alone(w) /\ CkCommit(w)
       \/ \E user \in KeyUsers, key_id \in KeyIdInputs,
             expiry \in ExpiryCodeInputs :
               Alone(w) /\ RoBegin(w, user, key_id, expiry)
       \/ Alone(w) /\ RoSelect(w)
       \/ Alone(w) /\ RoCount(w)
       \/ \E secret \in SecretDraws : Alone(w) /\ RoInsert(w, secret)
       \/ Alone(w) /\ RoCommit(w)
       \/ Alone(w) /\ Return(w)
  \/ Tick

ExpirySpec == ExpiryInit /\ [][ExpiryNext]_vars

\* secrets a client may present: a malformed one, those of the stored keys
\* and one no key has
SecretInputs ==
  {0, FreshSecret} \cup {keys[i].key_hash[2] : i \in 1..Len(keys)}

\* (name, permissions) a create request of a key holder may carry
RouteCreateInputs ==
  { [name |-> "k1", permissions |-> {"read"}],
    [name |-> "k2", permissions |-> {"deposit", "transfer"}] }

\* clients that hold API keys: u1 has one key with permission read, created
\* with 1H at the start; u2 has none
AuthInit ==
  /\ wallets = [u \in Users |-> [exists |-> TRUE, balance |-> InitBalance(u)]]
  /\ txs = InitDeposits
  /\ pc = [w \in Workers |-> "idle"]
  /\ loc = [w \in Workers |-> NoLoc]
  /\ result = [w \in Workers |-> "none"]
  /\ creditLog = [r \in {"r1", "r2"} |-> 0]
  /\ keys = <<SeedKey(FALSE, 1, 1)>>
  /\ requests = 0
  /\ now = 0
  /\ locks = [w \in Workers |-> {}]

AuthNext ==
  \/ \E w \in Workers :
       /\ Alone(w)
       /\ \/ \E credential \in CredentialInputs, permission \in PermissionInputs :
               Authenticate(w, credential, permission)
          \/ \E credential \in CredentialInputs, wn \in WalletNumberInputs,
                amount \in TransferAmountInputs :
                  RouteTransfer(w, credential, wn, amount)
          \/ TrRecipient(w)
          \/ TrCommit(w)
          \/ \E credential \in CredentialInputs : RouteBalance(w, credential)
          \/ \E secret \in SecretInputs, c \in RouteCreateInputs,
                expiry \in ExpiryInputs :
                  RouteCreate(w, secret, c.name, c.permissions, expiry)
          \/ CkCount(w)
          \/ \E secret \in SecretDraws : CkInsert(w, secret)
          \/ CkCommit(w)
          \/ \E secret \in SecretInputs, key_id \in KeyIdInputs,
                expiry \in ExpiryInputs : RouteRollover(w, secret, key_id, expiry)
          \/ RoSelect(w)
          \/ RoCount(w)
          \/ \E secret \in SecretDraws : RoInsert(w, secret)
          \/ RoCommit(w)
          \/ \E secret \in SecretInputs, key_id \in KeyIdInputs :
                  RouteRevoke(w, secret, key_id)
          \/ RvCommit(w)
          \/ Return(w)
  \/ Tick

AuthSpec == AuthInit /\ [][AuthNext]_vars

\* ---------------------------------------------------- amount conversions
\* minor-unit amounts: every value up to MaxKobo and some larger ones, the
\* largest being the largest whose hundredfold is a number of the checker
MaxKobo == 120

KoboAmountInputs ==
  (0..MaxKobo) \cup {1000, 12345, 500000, 9999999, 21474836}

\* request amounts: decimals with at most two fractional digits
\* (DepositRequest.amount, decimal_places=2)
RequestAmountInputs ==
  {Dec(c, e) : c \in 0..MaxKobo, e \in {0, -1, -2}}

\* one worker is about to convert a webhook amount, the other to store a
\* requested amount and send it to the gateway
ConvInit ==
  /\ wallets = [u \in Users |-> [exists |-> TRUE, balance |-> InitBalance(u)]]
  /\ txs = InitDeposits
  /\ result = [w \in Workers |-> "none"]
  /\ creditLog = [r \in {"r1", "r2"} |-> 0]
  /\ keys = <<>>
  /\ requests = 0
  /\ now = 0
  /\ locks = [w \in Workers |-> {}]
  /\ \E w \in Workers :
       /\ pc = [v \in Workers |-> IF v = w THEN "cv_major" ELSE "cv_store"]
       /\ \E kobo \in KoboAmountInputs, amount \in RequestAmountInputs :
            loc = [v \in Workers |->
                     IF v = w THEN [op |-> "kobo", kobo |-> kobo]
                     ELSE [op |-> "amount", amount |-> amount]]

\* _process_deposit: the webhook's kobo become an amount
CvMajor(w) ==
  /\ pc[w] = "cv_major"
  /\ loc' = [loc EXCEPT ![w] =
               [op |-> "kobo", kobo |-> loc[w].kobo,
                amount |-> KoboToDecimal(loc[w].kobo)]]
  /\ pc' = [pc EXCEPT ![w] = "cv_minor"]
  /\ UNCHANGED <<wallets, txs, result, creditLog, requests, keys, now, locks>>

\* initialize_transaction: that amount becomes kobo again
CvMinor(w) ==
  /\ pc[w] = "cv_minor"
  /\ loc' = [loc EXCEPT ![w] =
               [op |-> "kobo", kobo |-> loc[w].kobo, amount |-> loc[w].amount,
                back |-> AmountToKobo(loc[w].amount)]]
  /\ pc' = [pc EXCEPT ![w] = "done"]
  /\ UNCHANGED <<wallets, txs, result, creditLog, requests, keys, now, locks>>

\* initiate_deposit: the requested amount is stored in the Transaction and
\* sent to the gateway in kobo
CvStore(w) ==
  /\ pc[w] = "cv_store"
  /\ loc' = [loc EXCEPT ![w] =
               [op |-> "amount", amount |-> loc[w].amount,
                stored |-> StoredAmount(loc[w].amount),
                sent |-> AmountToKobo(loc[w].amount)]]
  /\ pc' = [pc EXCEPT ![w] = "cv_webhook"]
  /\ UNCHANGED <<wallets, txs, result, creditLog, requests, keys, now, locks>>

\* _process_deposit: the kobo of the webhook are converted and compared with
\* the stored amount
CvWebhook(w) ==
  /\ pc[w] = "cv_webhook"
  /\ LET received == KoboToDecimal(loc[w].sent)
     IN loc' = [loc EXCEPT ![w] =
                  [op |-> "amount", amount |-> loc[w].amount,
                   stored |-> loc[w].stored, sent |-> loc[w].sent,
                   received |-> received,
                   mismatch |-> ~DecimalEqual(received, loc[w].stored)]]
  /\ pc' = [pc EXCEPT ![w] = "done"]
  /\ UNCHANGED <<wallets, txs, result, creditLog, requests, keys, now, locks>>

ConvNext ==
  \E w \in Workers : CvMajor(w) \/ CvMinor(w) \/ CvStore(w) \/ CvWebhook(w)

ConvSpec == ConvInit /\ [][ConvNext]_vars

\* ------------------------------------------------------------- redelivery
\* the gateway delivers the success webhook of each deposit and delivers it
\* again after every response that is not a 2xx; the deliveries for one
\* deposit follow one another on one worker, those for different deposits
\* interleave

\* the deposit whose deliveries worker w handles
DeliveredReference(w) == IF w = "w1" THEN "r1" ELSE "r2"

\* the validly signed charge.success body with the stored amount of the deposit
SuccessBody(reference) ==
  WebhookBody("charge.success", reference,
              InitDeposits[TxIndex(reference)].amount, "success")

\* the route's response is a 2xx: the service returned True or False, or
\* raised LookupError
Acknowledged(w) ==
  pc[w] = "done" /\ result[w] \in {"true", "false", "LookupError:transaction"}

\* one delivery reaches the endpoint
Deliver(w) ==
  ProcessPaystackWebhook(w, SuccessBody(DeliveredReference(w)),
                         Sign(SuccessBody(DeliveredReference(w))))

\* the response was not a 2xx: the gateway schedules the delivery again
Redeliver(w) ==
  /\ ~Acknowledged(w)
  /\ Return(w)

\* the wallet row of any user may be missing when the webhooks arrive (the
\* state get_or_create_wallet provides for)
RedeliveryInit ==
  /\ wallets \in {[u \in Users |-> [exists |-> u \in have,
                                    balance |-> InitBalance(u)]]
                  : have \in SUBSET Users}
  /\ txs = InitDeposits
  /\ pc = [w \in Workers |-> "idle"]
  /\ loc = [w \in Workers |-> NoLoc]
  /\ result = [w \in Workers |-> "none"]
  /\ creditLog = [r \in {"r1", "r2"} |-> 0]
  /\ keys = <<>>
  /\ requests = 0
  /\ now = 0
  /\ locks = [w \in Workers |-> {}]

RedeliveryStep(w) ==
  \/ Deliver(w)
  \/ WhWallet(w)
  \/ WhCommit(w)
  \/ WhNoWallet(w)
  \/ Redeliver(w)

RedeliveryNext == \E w \in Workers : RedeliveryStep(w)

\* every request that has started runs to its response, and the gateway does
\* not give up
RedeliverySpec ==
  /\ RedeliveryInit
  /\ [][RedeliveryNext]_vars
  /\ \A w \in Workers : WF_vars(RedeliveryStep(w))

\* ================================================================== claims
DepositRefs == {InitDeposits[i].reference : i \in 1..Len(InitDeposits)}

RECURSIVE SumOver(_, _)
\* sum of f[x] over the finite set S
SumOver(f, S) ==
  IF S = {} THEN 0
  ELSE LET x == CHOOSE y \in S : TRUE IN f[x] + SumOver(f, S \ {x})

\* sum of the amounts of the TRANSFER rows selected by Sel(row)
TransferTotal(Sel(_)) ==
  SumOver([i \in 1..Len(txs) |-> txs[i].amount],
          {i \in 1..Len(txs) : txs[i].type = TRANSFER /\ Sel(txs[i])})

SentBy(u) == LET S(t) == t.user = u IN TransferTotal(S)

ReceivedBy(u) == LET R(t) == t.recipient_user_id = u IN TransferTotal(R)

\* C1: with requests handled one after the other, the delivery of a matching
\* success event that completes on a deposit loaded as PENDING returns true,
\* sets the deposit to SUCCESS and credits the owner's wallet by the stored
\* amount, as the first credit for that reference; a delivery of the same event
\* that finds the deposit SUCCESS returns false and changes no transaction and
\* no wallet, so the amount is credited exactly once.
C1_IdempotentWebhook ==
  [][\A w \in Workers, r \in DepositRefs :
       LET i == TxIndex(r)
           owner == txs[i].user
       IN wallets[owner].exists =>
            /\ (pc[w] = "wh_commit" /\ loc[w].reference = r
                  /\ loc[w].status = PENDING /\ pc'[w] = "done")
               => /\ result'[w] = "true"
                  /\ txs'[i].status = SUCCESS
                  /\ wallets'[owner].balance = wallets[owner].balance + txs[i].amount
                  /\ creditLog[r] = 0 /\ creditLog'[r] = 1
            /\ (txs[i].status = SUCCESS /\ WhBegin(w, r, txs[i].amount, "success"))
               => /\ result'[w] = "false"
                  /\ creditLog[r] = 1
                  /\ UNCHANGED <<wallets, txs, creditLog>>]_vars

\* C1 witness: the second delivery for r1 has returned false after the first
\* credited u1 (1 + 2 hundredths) and set r1 to SUCCESS
C1_Witness ==
  \E w \in Workers :
    /\ pc[w] = "done" /\ result[w] = "false"
    /\ txs[TxIndex("r1")].status = SUCCESS
    /\ creditLog["r1"] = 1
    /\ wallets["u1"].balance = InitBalance("u1") + 2

\* C2: under every interleaving of two deliveries of the success webhook for
\* one deposit, the owner's wallet is credited by the deposit amount at most
\* once: while no transfer has committed, the balance of every wallet is at
\* most its initial balance plus the amounts of its owner's deposits.
C2_ConcurrentWebhookCreditsOnce ==
  (Len(txs) = Len(InitDeposits)) =>
    \A u \in Users :
      wallets[u].exists =>
        wallets[u].balance <=
          InitBalance(u)
          + SumOver([i \in 1..Len(InitDeposits) |-> InitDeposits[i].amount],
                    {i \in 1..Len(InitDeposits) : InitDeposits[i].user = u})

\* C3: with requests handled one after the other, the commit of a transfer
\* lowers the sender's balance by the amount, raises the recipient's balance
\* by the amount, keeps their sum and changes no third wallet.
C3_TransferConservation ==
  [][\A w \in Workers :
       (pc[w] = "tr_commit" /\ pc'[w] = "done") =>
         LET s == loc[w].sender
             r == loc[w].recipient
             a == loc[w].amount
         IN /\ result'[w] = "success"
            /\ wallets'[s].balance = wallets[s].balance - a
            /\ wallets'[r].balance = wallets[r].balance + a
            /\ wallets'[s].balance + wallets'[r].balance
                 = wallets[s].balance + wallets[r].balance
            /\ \A u \in Users \ {s, r} : wallets'[u] = wallets[u]]_vars

\* C3 witness: u1 has sent its whole hundredth to u2
C3_Witness ==
  \E w \in Workers :
    /\ pc[w] = "done" /\ result[w] = "success"
    /\ wallets["u1"].balance = 0 /\ wallets["u2"].balance = 1
    /\ Len(txs) = Len(InitDeposits) + 1

TransferFailures ==
  {"ValueError:amount", "ValueError:sender", "ValueError:balance",
   "LookupError:recipient", "ValueError:self"}

\* C4: a transfer_funds call that fails (amount <= 0, sender wallet missing,
\* insufficient balance, unknown recipient wallet number, own wallet) changes
\* no wallet and inserts no Transaction.
C4_FailedTransferChangesNothing ==
  [][\A w \in Workers :
       (pc[w] # "done" /\ pc'[w] = "done" /\ result'[w] \in TransferFailures)
         => UNCHANGED <<wallets, txs>>]_vars

\* C4 witness: one request failed as a self-transfer while another failed for
\* an unknown recipient
C4_Witness ==
  \E w, v \in Workers :
    /\ pc[w] = "done" /\ result[w] = "ValueError:self"
    /\ pc[v] = "done" /\ result[v] = "LookupError:recipient"

\* C5: in every committed state, under any interleaving of transfers and
\* webhook credits, every wallet balance is at least zero.
C5_BalanceNonNegative == \A u \in Users : wallets[u].balance >= 0

\* C5 witness: a transfer that emptied u1's wallet and a webhook credit to u1
\* have both committed
C5_Witness ==
  /\ wallets["u1"].balance = 0
  /\ creditLog["r1"] >= 1
  /\ \E i \in 1..Len(txs) : txs[i].type = TRANSFER /\ txs[i].user = "u1"

\* C6: concurrent transfers are serializable: while no webhook has credited,
\* every wallet's balance is its initial balance plus the amounts of the
\* recorded transfers it received minus the amounts of those it sent (so the
\* sum of all balances is unchanged).
C6_TransfersSerializable ==
  (\A r \in DepositRefs : creditLog[r] = 0) =>
    \A u \in Users :
      wallets[u].balance = InitBalance(u) + ReceivedBy(u) - SentBy(u)

\* the keys of a user that are active: marked active, not revoked, not expired
ActiveKeys(user) ==
  {i \in 1..Len(keys) :
     /\ keys[i].user = user
     /\ keys[i].is_active
     /\ ~keys[i].is_revoked
     /\ keys[i].expires_at > now}

\* worker w takes a step
Moves(w) == pc'[w] # pc[w] \/ loc'[w] # loc[w]

\* C7: after any sequence of create and rollover calls, concurrent ones
\* included, no user has more than 5 keys that are active, not revoked and
\* not expired.
C7_ActiveKeysWithinQuota ==
  \A u \in KeyUsers : Cardinality(ActiveKeys(u)) <= MAX_ACTIVE_KEYS

\* C8: the count that decides the quota check of create_api_key and
\* rollover_api_key is the number of the user's rows that are active, not
\* revoked and not expired, rows of other users not counted.
C8_QuotaCountsActiveKeys ==
  [][\A w \in Workers :
       (pc[w] \in {"ck_count", "ro_count"} /\ Moves(w)) =>
         /\ CountActiveKeys(loc[w].user) = Cardinality(ActiveKeys(loc[w].user))
         /\ pc'[w] # "done" =>
              loc'[w].active_count = Cardinality(ActiveKeys(loc[w].user))]_vars

\* C9: the commit of a rollover of key K revokes K and inserts exactly one
\* key, which has K's owner, name and permission set, is active and not
\* revoked and expires later than the time of the call; every other row stays
\* as it is, and no other step of a rollover changes the stored keys, so the
\* insert and the revoke become visible together.
C9_RolloverAtomic ==
  [][\A w \in Workers :
       /\ (pc[w] = "ro_commit" /\ pc'[w] = "done") =>
            LET K == loc[w].key_id
                n == Len(keys) + 1
            IN /\ result'[w] = "rolled"
               /\ Len(keys') = n
               /\ keys'[K] = [keys[K] EXCEPT !.is_revoked = TRUE]
               /\ \A i \in (1..Len(keys)) \ {K} : keys'[i] = keys[i]
               /\ keys'[n].user = keys[K].user
               /\ keys'[n].name = keys[K].name
               /\ keys'[n].permissions = keys[K].permissions
               /\ keys'[n].is_active /\ ~keys'[n].is_revoked
               /\ keys'[n].expires_at > loc[w].called_at
       /\ (pc[w] \in {"ro_select", "ro_count", "ro_insert"} /\ Moves(w))
            => UNCHANGED keys]_vars

\* C9 witness: a rollover has committed: its key is revoked and the last row
\* is the live successor with the same name and permissions
C9_Witness ==
  \E w \in Workers, K \in 1..Len(keys) :
    /\ pc[w] = "done" /\ result[w] = "rolled"
    /\ K < Len(keys)
    /\ keys[K].is_revoked /\ keys[K].expires_at <= now
    /\ keys[Len(keys)].name = keys[K].name
    /\ keys[Len(keys)].permissions = keys[K].permissions
    /\ ~keys[Len(keys)].is_revoked /\ keys[Len(keys)].expires_at > now

RolloverFailures ==
  {"rollover/ValueError:expiry", "rollover/LookupError",
   "rollover/ValueError:notexpired", "rollover/ValueError:revoked",
   "rollover/ValueError:quota", "rollover/ValueError:exhausted"}

\* C10: a rollover_api_key call that fails (invalid expiry code, key not
\* found, not yet expired, already revoked, quota exceeded, every generation
\* attempt colliding) changes no stored key and inserts none: the step that
\* ends it in failure, and every step before it, leaves the table unchanged.
C10_FailedRolloverChangesNothing ==
  [][\A w \in Workers :
       /\ (pc[w] # "done" /\ pc'[w] = "done" /\ result'[w] \in RolloverFailures)
            => UNCHANGED keys
       /\ (pc[w] \in {"ro_select", "ro_count", "ro_insert"} /\ Moves(w))
            => UNCHANGED keys]_vars

\* C10 witness: a rollover of the expired key of the third seed table has
\* failed at the quota check, and the key is still not revoked and has no
\* successor
C10_Witness ==
  \E w \in Workers :
    /\ pc[w] = "done" /\ result[w] = "rollover/ValueError:quota"
    /\ Len(keys) = MAX_ACTIVE_KEYS + 2
    /\ ~keys[MAX_ACTIVE_KEYS + 1].is_revoked

\* C11: when two rollover_api_key calls for the same expired key run
\* concurrently, at most one succeeds: never have two rollovers of one key
\* both flushed a successor row that their commit is about to store together
\* with the revoke (each of them would succeed, leaving two active successors).
C11_ConcurrentRolloverOneSuccessor ==
  \A w, v \in Workers :
    (w # v /\ pc[w] = "ro_commit" /\ pc[v] = "ro_commit")
      => loc[w].key_id # loc[v].key_id

\* C12: the commit of revoke_api_key on a caller-owned key that is not
\* revoked sets is_revoked on that row, changes no other row and returns true;
\* revoke_api_key on a caller-owned key that is already revoked fails with the
\* explicit "already revoked" error and changes no key; and a revoked key stays
\* revoked, so of two successive revokes of one key the second always fails.
C12_RevokeThenAlreadyRevoked ==
  [][/\ \A w \in Workers :
          /\ (pc[w] = "rv_commit" /\ pc'[w] = "done") =>
               LET K == loc[w].key_id
               IN /\ keys[K].user = loc[w].user /\ ~keys[K].is_revoked
                  /\ result'[w] = "revoked"
                  /\ keys' = [keys EXCEPT ![K].is_revoked = TRUE]
          /\ \A user \in KeyUsers, K \in 1..Len(keys) :
               (OwnKey(K, user) /\ keys[K].is_revoked /\ RvBegin(w, user, K))
                 => /\ pc'[w] = "done"
                    /\ result'[w] = "revoke/ValueError:revoked"
                    /\ UNCHANGED keys
     /\ \A K \in 1..Len(keys) : keys[K].is_revoked => keys'[K].is_revoked]_vars

\* C12 witness: of two revokes of the only key of u1, the first has revoked it
\* and the second has failed as already revoked
C12_Witness ==
  \E w, v \in Workers :
    /\ pc[w] = "done" /\ result[w] = "revoked"
    /\ pc[v] = "done" /\ result[v] = "revoke/ValueError:revoked"
    /\ Len(keys) = 1 /\ keys[1].is_revoked

\* C13: revoke_api_key and rollover_api_key called by a user with the id of
\* a key owned by a different user fail with "not found" and change no key;
\* a stored key changes only at the commit of a revoke or rollover requested by
\* its owner, and a row is inserted only for the requesting user, by a create
\* or by a rollover of a key of that same user.
C13_OtherUsersKeysUntouched ==
  [][/\ \A w \in Workers :
          /\ \A user \in KeyUsers, K \in 1..Len(keys) :
               (keys[K].user # user /\ RvBegin(w, user, K))
                 => /\ pc'[w] = "done" /\ result'[w] = "revoke/LookupError"
                    /\ UNCHANGED keys
          /\ (pc[w] = "ro_select" /\ Moves(w) /\ loc[w].key_id \in 1..Len(keys)
                 /\ keys[loc[w].key_id].user # loc[w].user)
               => /\ pc'[w] = "done" /\ result'[w] = "rollover/LookupError"
                  /\ UNCHANGED keys
     /\ \A K \in 1..Len(keys) :
          keys'[K] # keys[K] =>
            \E w \in Workers :
              /\ pc[w] \in {"rv_commit", "ro_commit"} /\ pc'[w] = "done"
              /\ loc[w].key_id = K /\ loc[w].user = keys[K].user
     /\ Len(keys') # Len(keys) =>
          \E w \in Workers :
            /\ pc[w] \in {"ck_commit", "ro_commit"} /\ pc'[w] = "done"
            /\ keys' = Append(SubSeq(keys', 1, Len(keys)), keys'[Len(keys')])
            /\ Len(keys') = Len(keys) + 1
            /\ keys'[Len(keys')].user = loc[w].user
            /\ pc[w] = "ro_commit" => keys[loc[w].key_id].user = loc[w].user]_vars

\* C13 witness: u2 asked for a rollover of the expired key of u1 that the
\* behaviour started with, was told that the key was not found, and the key is
\* as it was, without a successor
C13_Witness ==
  \E w \in Workers :
    /\ pc[w] = "done" /\ result[w] = "rollover/LookupError"
    /\ loc[w].user = "u2" /\ loc[w].key_id = 1
    /\ keys = <<SeedKey(FALSE, 0, 1)>>

\* C14: the status of a transaction changes only from PENDING (to SUCCESS or
\* to FAILED): a SUCCESS transaction never becomes FAILED or PENDING and a
\* FAILED transaction never becomes SUCCESS or PENDING.
C14_StatusMonotonic ==
  [][\A i \in 1..Len(txs) :
       txs'[i].status # txs[i].status => txs[i].status = PENDING]_vars

\* C15: with requests handled one after the other, the delivery of a success
\* event with the matching amount for a PENDING deposit whose owner has a
\* wallet goes from the lookup to the wallet lookup to the commit without
\* writing, and the commit sets that deposit to SUCCESS, adds exactly the
\* stored amount to the owner's balance, leaves every other transaction and
\* every other wallet as they were, and returns true.
C15_SuccessWebhookCredits ==
  [][\A w \in Workers, r \in DepositRefs :
       LET i == TxIndex(r)
           owner == txs[i].user
       IN (txs[i].status = PENDING /\ wallets[owner].exists) =>
            /\ WhBegin(w, r, txs[i].amount, "success")
                 => pc'[w] = "wh_wallet" /\ UNCHANGED <<wallets, txs>>
            /\ (pc[w] = "wh_wallet" /\ loc[w].reference = r /\ Moves(w))
                 => pc'[w] = "wh_commit" /\ UNCHANGED <<wallets, txs>>
            /\ (pc[w] = "wh_commit" /\ loc[w].reference = r /\ Moves(w))
                 => /\ pc'[w] = "done" /\ result'[w] = "true"
                    /\ txs' = [txs EXCEPT ![i].status = SUCCESS]
                    /\ wallets' = [wallets EXCEPT ![owner].balance =
                                      wallets[owner].balance + txs[i].amount]]_vars

\* C15 witness: the delivery for r1 (2 hundredths, owner u1) has returned true:
\* r1 is SUCCESS, u1 holds 1 + 2, and the other deposit and the other wallets
\* are as they were at the start
C15_Witness ==
  \E w \in Workers :
    /\ pc[w] = "done" /\ result[w] = "true"
    /\ loc[w].op = "webhook" /\ loc[w].reference = "r1"
    /\ txs = [InitDeposits EXCEPT ![1].status = SUCCESS]
    /\ wallets["u1"].balance = InitBalance("u1") + InitDeposits[1].amount
    /\ \A u \in Users \ {"u1"} : wallets[u].balance = InitBalance(u)

\* C16: the delivery of a success event for a deposit loaded as PENDING is
\* routed to the mismatch branch when the converted amount differs from the
\* stored amount and to the failure branch when the amounts agree and the
\* gateway status is not success; either branch commits the deposit as FAILED
\* and changes no wallet and logs no credit, the first raising the amount
\* mismatch error, the second returning false.
C16_MismatchOrFailedStatus ==
  [][\A w \in Workers :
       /\ \A r \in DepositRefs, kobo \in KoboInputs, ps \in PaystackStatusInputs :
            (txs[TxIndex(r)].status = PENDING /\ WhBegin(w, r, kobo, ps)) =>
              /\ KoboToAmount(kobo) # txs[TxIndex(r)].amount
                   => pc'[w] = "wh_mismatch"
              /\ (KoboToAmount(kobo) = txs[TxIndex(r)].amount /\ ps # "success")
                   => pc'[w] = "wh_failed"
       /\ (pc[w] \in {"wh_mismatch", "wh_failed"} /\ loc[w].status = PENDING
              /\ Moves(w))
            => /\ pc'[w] = "done"
               /\ result'[w] = (IF pc[w] = "wh_mismatch" THEN "ValueError" ELSE "false")
               /\ txs'[loc[w].tx].status = FAILED
               /\ \A i \in (1..Len(txs)) \ {loc[w].tx} : txs'[i] = txs[i]
               /\ UNCHANGED <<wallets, creditLog>>]_vars

\* C16 witness: a delivery for r1 with a wrong amount has raised and a
\* delivery for r2 with gateway status failed has returned false; both
\* deposits are FAILED and no wallet has been credited
C16_Witness ==
  \E w, v \in Workers :
    /\ pc[w] = "done" /\ result[w] = "ValueError"
    /\ loc[w].op = "webhook" /\ loc[w].reference = "r1"
    /\ pc[v] = "done" /\ result[v] = "false"
    /\ loc[v].op = "webhook" /\ loc[v].reference = "r2"
    /\ txs[1].status = FAILED /\ txs[2].status = FAILED
    /\ \A u \in Users : wallets[u].balance = InitBalance(u)
    /\ \A r \in DepositRefs : creditLog[r] = 0

FrontFailures ==
  {"ValueError:missing signature", "ValueError:invalid signature",
   "ValueError:json", "ValueError:missing data"}

\* C17: a webhook request with an empty or absent signature, with a signature
\* that does not verify against the body, with a body that is not JSON, with
\* an event other than charge.success or without reference or amount ends in
\* its first step and changes no transaction and no wallet; it raises, except
\* for the other event, which returns false; and a missing or wrong signature
\* is reported whatever the body is, parsable or not.
C17_RejectedWebhookChangesNothing ==
  [][\A w \in Workers, in \in WebhookInputs :
       LET body == in[1]
           signature == in[2]
           bad == \/ signature = NoSignature
                  \/ ~VerifyPaystackSignature(body, signature)
                  \/ ~body.json
                  \/ body.event # "charge.success"
                  \/ body.reference = "" \/ body.amount = 0
       IN (bad /\ ProcessPaystackWebhook(w, body, signature)) =>
            /\ pc'[w] = "done"
            /\ UNCHANGED <<wallets, txs, creditLog>>
            /\ signature = NoSignature
                 => result'[w] = "ValueError:missing signature"
            /\ (signature # NoSignature /\ ~VerifyPaystackSignature(body, signature))
                 => result'[w] = "ValueError:invalid signature"
            /\ (VerifyPaystackSignature(body, signature) /\ ~body.json)
                 => result'[w] = "ValueError:json"
            /\ (VerifyPaystackSignature(body, signature) /\ body.json
                  /\ body.event # "charge.success")
                 => result'[w] = "false"
            /\ (VerifyPaystackSignature(body, signature) /\ body.json
                  /\ body.event = "charge.success")
                 => result'[w] = "ValueError:missing data"]_vars

\* C17 witness: an unsigned request whose body is not JSON has been refused
\* for its missing signature and a signed request for another event has
\* returned false; deposits and balances are as they were at the start
C17_Witness ==
  \E w, v \in Workers :
    /\ pc[w] = "done" /\ result[w] = "ValueError:missing signature"
    /\ loc[w].op = "front" /\ loc[w].body = NotJsonBody
    /\ pc[v] = "done" /\ result[v] = "false"
    /\ loc[v].op = "front" /\ loc[v].body.event = "charge.failed"
    /\ txs = InitDeposits
    /\ \A u \in Users : wallets[u].balance = InitBalance(u)

\* C18: under any interleaving of initiate_deposit, get_deposit_status,
\* get_balance, get_transactions and transfer_funds calls, no stored
\* transaction ever changes (so no deposit leaves PENDING), a row that
\* initiate_deposit stores is a PENDING deposit, no step of initiate_deposit
\* changes a wallet, and a balance changes only at the commit of a transfer,
\* never on account of a deposit.
C18_OnlyWebhookSettlesDeposits ==
  [][/\ \A i \in 1..Len(txs) : txs'[i] = txs[i]
     /\ UNCHANGED creditLog
     /\ \A w \in Workers :
          (Moves(w) /\ loc'[w].op = "deposit") =>
            /\ UNCHANGED wallets
            /\ Len(txs') # Len(txs) =>
                 /\ Len(txs') = Len(txs) + 1
                 /\ txs'[Len(txs')].type = DEPOSIT
                 /\ txs'[Len(txs')].status = PENDING
     /\ \A u \in Users :
          wallets'[u].balance # wallets[u].balance =>
            \E w \in Workers :
              /\ pc[w] = "tr_commit" /\ pc'[w] = "done"
              /\ u \in {loc[w].sender, loc[w].recipient}]_vars

\* C18 witness: a deposit of u1 has been initiated and stored as PENDING and
\* the status query of u1 for r1 has answered PENDING; every balance is the
\* initial one
C18_Witness ==
  \E w, v \in Workers :
    /\ pc[w] = "done" /\ result[w] = "deposit/initiated" /\ loc[w].user = "u1"
    /\ Len(txs) = Len(InitDeposits) + 1
    /\ txs[Len(txs)].type = DEPOSIT /\ txs[Len(txs)].status = PENDING
    /\ pc[v] = "done" /\ result[v] = "status"
    /\ loc[v].returned = <<"r1", PENDING, 2>>
    /\ \A u \in Users : wallets[u].balance = InitBalance(u)

\* C19: in every committed state a deposit is SUCCESS only if its amount has
\* been credited to its owner's wallet (a credit for its reference has been
\* committed and logged), whatever the outcome of the webhook processing was.
C19_SuccessOnlyWithCredit ==
  \A r \in DepositRefs :
    txs[TxIndex(r)].status = SUCCESS => creditLog[r] >= 1

\* C20: while the gateway call of initiate_deposit is in flight, the PENDING
\* transaction of that call is already committed (no transaction of the
\* session is open with the row flushed in it).
C20_PendingCommittedBeforeGateway ==
  \A w \in Workers :
    pc[w] = "id_gateway" =>
      \E i \in (Len(InitDeposits) + 1)..Len(txs) :
        txs[i].reference = loc[w].reference


\* C21: with requests handled one after the other, the commit of a transfer
\* returns success and appends exactly one row, of type TRANSFER and status
\* SUCCESS, owned by the sender, with the transferred amount and the wallet
\* number and user id of the credited wallet, in the same step that moves both
\* balances; and no step moves a balance without either logging a webhook
\* credit or appending such a row.
C21_TransferRecordedWithBalances ==
  [][/\ \A w \in Workers :
          (pc[w] = "tr_commit" /\ pc'[w] = "done") =>
            LET s == loc[w].sender
                r == loc[w].recipient
                a == loc[w].amount
                t == txs'[Len(txs')]
            IN /\ result'[w] = "success"
               /\ Len(txs') = Len(txs) + 1
               /\ SubSeq(txs', 1, Len(txs)) = txs
               /\ t.type = TRANSFER /\ t.status = SUCCESS
               /\ t.user = s /\ t.amount = a
               /\ t.recipient_user_id = r
               /\ t.recipient_wallet_number = WalletNumber(r)
               /\ wallets'[s].balance = wallets[s].balance - a
               /\ wallets'[r].balance = wallets[r].balance + a
     /\ (\E u \in Users : wallets'[u].balance # wallets[u].balance) =>
          \/ creditLog' # creditLog
          \/ /\ Len(txs') = Len(txs) + 1
             /\ txs'[Len(txs')].type = TRANSFER
     /\ Len(txs') > Len(txs) =>
          \E w \in Workers : pc[w] = "tr_commit" /\ pc'[w] = "done"]_vars

\* C21 witness: a completed transfer whose row names its sender as owner and
\* its recipient as the credited user
C21_Witness ==
  \E w \in Workers :
    /\ pc[w] = "done" /\ loc[w].op = "transfer" /\ result[w] = "success"
    /\ \E i \in 1..Len(txs) :
         /\ txs[i].type = TRANSFER /\ txs[i].status = SUCCESS
         /\ txs[i].user = loc[w].sender
         /\ txs[i].recipient_user_id = loc[w].recipient
         /\ txs[i].recipient_wallet_number = loc[w].wn
         /\ txs[i].amount = loc[w].amount


\* the rows a deposit-status lookup is scoped to
ScopedDeposits(user, reference) ==
  {i \in 1..Len(txs) : /\ txs[i].reference = reference
                       /\ txs[i].user = user
                       /\ txs[i].type = DEPOSIT}

\* C22: a get_deposit_status call changes no wallet, transaction, key or
\* credit; it returns (reference, status, amount) only of a row that has the
\* requested reference, is owned by the caller and is of type DEPOSIT, and it
\* fails with LookupError when there is no such row (the reference is unknown,
\* belongs to another user, or is the reference of a TRANSFER).
C22_DepositStatusScoped ==
  [][\A w \in Workers :
       (pc[w] = "idle" /\ pc'[w] = "done" /\ loc'[w].op = "status") =>
         LET S == ScopedDeposits(loc'[w].user, loc'[w].reference)
         IN /\ UNCHANGED <<wallets, txs, creditLog, keys>>
            /\ result'[w] \in {"status", "status/LookupError"}
            /\ result'[w] = "status" =>
                 \E i \in S :
                   loc'[w].returned =
                     <<loc'[w].reference, txs[i].status, txs[i].amount>>
            /\ S = {} => result'[w] = "status/LookupError"
                         /\ loc'[w].returned = <<>>]_vars

\* C22 witness: a user asked for the status of the reference of a TRANSFER
\* they sent and got LookupError, and another request got the status of the
\* caller's own deposit
C22_Witness ==
  \E w, v \in Workers :
    /\ pc[w] = "done" /\ loc[w].op = "status"
    /\ result[w] = "status/LookupError"
    /\ \E i \in (Len(InitDeposits) + 1)..Len(txs) :
         /\ txs[i].reference = loc[w].reference
         /\ txs[i].type = TRANSFER /\ txs[i].user = loc[w].user
    /\ pc[v] = "done" /\ loc[v].op = "status" /\ result[v] = "status"
    /\ loc[v].user = "u3" /\ loc[v].returned = <<"r2", PENDING, 1>>


\* C23: every step of a get_balance or get_transactions call leaves the
\* wallets (their existence and balances), the transactions and the keys
\* unchanged, and get_transactions returns exactly the caller's rows, each
\* once, newest first.
C23_QueriesReadOnly ==
  [][\A w \in Workers :
       (/\ pc[w] \in {"idle", "gb_flush", "gb_commit"}
        /\ pc'[w] # pc[w]
        /\ loc'[w].op \in {"balance", "transactions"}) =>
         /\ UNCHANGED <<wallets, txs, keys>>
         /\ loc'[w].op = "transactions" =>
              LET ret == loc'[w].returned
              IN /\ \A k \in 1..Len(ret) : ret[k].user = loc'[w].user
                 /\ \A i \in 1..Len(txs) :
                      txs[i].user = loc'[w].user =>
                        \E k \in 1..Len(ret) : ret[k] = txs[i]
                 /\ \A k, l \in 1..Len(ret) :
                      k < l => TxIndex(ret[k].reference)
                                 > TxIndex(ret[l].reference)]_vars


\* C24: a wallet row is committed by get_or_create_wallet only for a user who
\* has no committed wallet row (so no user ever has two), also when two calls
\* for that user overlap; the committed row has balance zero; and no step
\* removes a wallet.
C24_OneWalletPerUser ==
  [][/\ \A w \in Workers :
          (pc[w] = "gb_commit" /\ pc'[w] = "done") =>
            /\ ~wallets[loc[w].user].exists
            /\ wallets'[loc[w].user] = [exists |-> TRUE, balance |-> 0]
            /\ \A u \in Users \ {loc[w].user} : wallets'[u] = wallets[u]
     /\ \A u \in Users :
          /\ wallets[u].exists => wallets'[u].exists
          /\ (~wallets[u].exists /\ wallets'[u].exists) =>
               \E w \in Workers : /\ pc[w] = "gb_commit" /\ pc'[w] = "done"
                                  /\ loc[w].user = u]_vars

\* C24 witness: two overlapping get_balance calls of u3, who had no wallet,
\* have both passed the SELECT; one created the wallet and the other failed on
\* the unique user_id
C24_Witness ==
  \E w, v \in Workers :
    /\ pc[w] = "done" /\ loc[w].op = "balance" /\ loc[w].user = "u3"
    /\ result[w] = "balance"
    /\ pc[v] = "done" /\ loc[v].op = "balance" /\ loc[v].user = "u3"
    /\ result[v] = "balance/IntegrityError"
    /\ wallets["u3"] = [exists |-> TRUE, balance |-> 0]


\* C25: a create_api_key call has made fewer than 5 failed attempts whenever
\* it is in its retry loop; every pass of the loop stores nothing and either
\* flushes a secret whose hash no stored key has, or counts one more collision,
\* or, on the fifth collision, ends the call with the exhausted error; the
\* commit stores exactly one key, whose hash is that of the secret returned.
\* The count of collisions grows with every pass that stays in the loop, so
\* the loop ends after at most 5 passes.
C25_CreateRetriesBounded ==
  [][\A w \in Workers :
       /\ (pc[w] = "ck_insert" /\ <<pc[w], loc[w]>>' # <<pc[w], loc[w]>>) =>
            /\ loc[w].attempt \in 0..(MAX_RETRY_ATTEMPTS - 1)
            /\ keys' = keys
            /\ \/ /\ pc'[w] = "ck_commit"
                  /\ HashApiKey(loc'[w].secret) \notin CommittedHashes
                  /\ loc'[w].attempt = loc[w].attempt
               \/ /\ pc'[w] = "ck_insert"
                  /\ loc'[w].attempt = loc[w].attempt + 1
                  /\ loc'[w].attempt <= MAX_RETRY_ATTEMPTS - 1
               \/ /\ pc'[w] = "done"
                  /\ result'[w] = "create/ValueError:exhausted"
                  /\ loc[w].attempt = MAX_RETRY_ATTEMPTS - 1
       /\ (pc[w] = "ck_commit" /\ pc'[w] = "done") =>
            /\ result'[w] = "created"
            /\ Len(keys') = Len(keys) + 1
            /\ SubSeq(keys', 1, Len(keys)) = keys
            /\ keys'[Len(keys')].key_hash = HashApiKey(loc[w].secret)
            /\ keys'[Len(keys')].user = loc[w].user]_vars

\* C25 witness: one create call stored its key on the fifth attempt, after
\* four collisions, and another gave up after five collisions
C25_Witness ==
  \E w, v \in Workers :
    /\ pc[w] = "done" /\ loc[w].op = "create" /\ result[w] = "created"
    /\ loc[w].attempt = MAX_RETRY_ATTEMPTS - 1
    /\ \E i \in 1..Len(keys) : keys[i].key_hash = HashApiKey(loc[w].secret)
    /\ pc[v] = "done" /\ loc[v].op = "create"
    /\ result[v] = "create/ValueError:exhausted"


\* the key-creating calls that have counted and not yet committed or failed
BetweenCountAndCommit(w) ==
  pc[w] \in {"ck_insert", "ck_commit", "ro_insert", "ro_commit"}

\* C26: a create or rollover call that has passed its quota count and has not
\* yet committed still holds every row lock its transaction took (the counted
\* rows and, for a rollover, the expired key), also after a collision; and no
\* other call commits a key insert for the same user while it is between its
\* count and its commit.
C26_CountAndInsertOneTransaction ==
  [][\A w \in Workers :
       /\ BetweenCountAndCommit(w)' =>
            IF loc'[w].op = "create"
            THEN Cardinality(locks'[w]) = loc'[w].active_count
            ELSE /\ loc'[w].key_id \in locks'[w]
                 /\ Cardinality(locks'[w] \ {loc'[w].key_id})
                      = loc'[w].active_count
       /\ (BetweenCountAndCommit(w) /\ BetweenCountAndCommit(w)') =>
            \A v \in Workers \ {w} :
              (pc[v] \in {"ck_commit", "ro_commit"} /\ pc'[v] = "done") =>
                loc[v].user # loc[w].user]_vars


\* hours the four expiry codes stand for
ExpiryHours ==
  [code \in {"1H", "1D", "1M", "1Y"} |->
     CASE code = "1H" -> 1
       [] code = "1D" -> 24
       [] code = "1M" -> 30 * 24
       [] code = "1Y" -> 365 * 24]

\* C27: a create or rollover request with one of the codes 1H, 1D, 1M, 1Y
\* goes on with an expiry of the current time plus 1 hour, 1 day, 30 days or
\* 365 days, and the key it stores expires that long after the call; a request
\* with any other string ends at once with the invalid-expiry error, having
\* locked no row and changed no key.
C27_ExpiryCodes ==
  [][\A w \in Workers :
       /\ (/\ pc[w] = "idle" /\ pc'[w] # "idle"
           /\ loc'[w].op \in {"create", "rollover"}) =>
            /\ UNCHANGED <<keys, locks>>
            /\ IF loc'[w].expiry \in DOMAIN ExpiryHours
               THEN /\ pc'[w] = (IF loc'[w].op = "create" THEN "ck_count"
                                 ELSE "ro_select")
                    /\ loc'[w].expires_at = now + ExpiryHours[loc'[w].expiry]
               ELSE /\ pc'[w] = "done"
                    /\ result'[w] = (IF loc'[w].op = "create"
                                     THEN "create/ValueError:expiry"
                                     ELSE "rollover/ValueError:expiry")
       /\ (pc[w] \in {"ck_commit", "ro_commit"} /\ pc'[w] = "done") =>
            /\ loc[w].expiry \in DOMAIN ExpiryHours
            /\ keys'[Len(keys')].expires_at
                 = loc[w].called_at + ExpiryHours[loc[w].expiry]]_vars

\* C27 witness: a key created with code 1M is stored, expiring 30 days after
\* the call, and a later rollover request carrying the bare number 1 has
\* failed with the invalid-expiry error
C27_Witness ==
  \E w \in Workers :
    /\ pc[w] = "done" /\ loc[w].op = "rollover"
    /\ result[w] = "rollover/ValueError:expiry" /\ loc[w].expiry = "1"
    /\ Len(keys) = 2
    /\ keys[2].expires_at \in {30 * 24 + t : t \in 0..now}


\* C28: a minor-unit amount converted to a major-unit amount as the webhook
\* does and back as the gateway client does is the amount it was; and the
\* kobo sent to the gateway for a requested amount convert back to a value
\* equal to the amount stored for that request, which the webhook's comparison
\* finds equal.
C28_AmountRoundTrip ==
  \A w \in Workers :
    pc[w] = "done" =>
      /\ loc[w].op = "kobo" => loc[w].back = loc[w].kobo
      /\ loc[w].op = "amount" =>
           /\ ~loc[w].mismatch
           /\ Hundredths(loc[w].received) = loc[w].stored.coef
           /\ loc[w].sent = loc[w].stored.coef

\* C28 witness: 101 kobo became 1.01 and 101 again, and a requested 1.5 was
\* stored as 1.50, sent as 150 kobo and received as 1.5
C28_Witness ==
  \E w, v \in Workers :
    /\ pc[w] = "done" /\ loc[w].op = "kobo" /\ loc[w].kobo = 101
    /\ loc[w].amount = Dec(101, -2) /\ loc[w].back = 101
    /\ pc[v] = "done" /\ loc[v].op = "amount" /\ loc[v].amount = Dec(15, -1)
    /\ loc[v].stored = Dec(150, -2) /\ loc[v].sent = 150
    /\ loc[v].received = Dec(15, -1)


\* amounts credited by committed webhook credits to the deposits of u
CreditedTo(u) ==
  SumOver([i \in 1..Len(InitDeposits) |->
             creditLog[InitDeposits[i].reference] * InitDeposits[i].amount],
          {i \in 1..Len(InitDeposits) : InitDeposits[i].user = u})

\* C29: when a webhook credit and a transfer touch one wallet (no reference
\* credited twice, at most one transfer recorded), under every interleaving
\* the balance of every wallet is its initial balance plus the committed
\* webhook credits plus the recorded transfers it received minus those it
\* sent.
C29_CreditAndTransferLinearized ==
  (/\ \A r \in DepositRefs : creditLog[r] <= 1
   /\ Cardinality({i \in 1..Len(txs) : txs[i].type = TRANSFER}) <= 1) =>
    \A u \in Users :
      wallets[u].exists =>
        wallets[u].balance
          = InitBalance(u) + CreditedTo(u) + ReceivedBy(u) - SentBy(u)


\* C30: at its quota check a create call goes on to insert when the caller has
\* 4 active keys and ends with the quota error, storing nothing, when the
\* caller has 5 or more; a rollover call ends with the quota error when the
\* caller has 5 or more active keys (the expired key it rolls over is not
\* among them).
C30_QuotaBoundary ==
  [][\A w \in Workers :
       (pc[w] \in {"ck_count", "ro_count"} /\ Moves(w)) =>
         LET active == Cardinality(ActiveKeys(loc[w].user))
         IN /\ (pc[w] = "ck_count" /\ active = MAX_ACTIVE_KEYS - 1) =>
                 pc'[w] = "ck_insert"
            /\ (pc[w] = "ck_count" /\ active >= MAX_ACTIVE_KEYS) =>
                 /\ pc'[w] = "done"
                 /\ result'[w] = "create/ValueError:quota"
                 /\ keys' = keys
            /\ (pc[w] = "ro_count" /\ active >= MAX_ACTIVE_KEYS) =>
                 /\ pc'[w] = "done"
                 /\ result'[w] = "rollover/ValueError:quota"
                 /\ keys' = keys]_vars


\* C31: with requests handled one after the other, a transfer request with a
\* positive amount, a sender who has a wallet and a recipient wallet that
\* exists and is not the sender's passes the balance check if the sender's
\* balance is at least the amount and otherwise ends with the balance error,
\* changing nothing; a request that passed goes on to its commit, which
\* succeeds and lowers the sender's balance by the amount, to zero when the
\* amount was the whole balance.
C31_TransferIffSufficient ==
  [][\A w \in Workers :
       /\ \A sender \in Users, wn \in WalletNumberInputs,
             amount \in TransferAmountInputs :
            (/\ TrBegin(w, sender, wn, amount)
             /\ amount > 0
             /\ wallets[sender].exists
             /\ WalletByNumber(wn) \notin {"none", sender}) =>
              IF wallets[sender].balance >= amount
              THEN pc'[w] = "tr_recipient"
              ELSE /\ pc'[w] = "done"
                   /\ result'[w] = "ValueError:balance"
                   /\ UNCHANGED <<wallets, txs>>
       /\ (/\ pc[w] = "tr_recipient" /\ pc'[w] # pc[w]
           /\ WalletByNumber(loc[w].wn) \notin {"none", loc[w].sender}) =>
            pc'[w] = "tr_commit"
       /\ (pc[w] = "tr_commit" /\ pc'[w] # pc[w]) =>
            /\ pc'[w] = "done" /\ result'[w] = "success"
            /\ wallets[loc[w].sender].balance >= loc[w].amount
            /\ wallets'[loc[w].sender].balance
                 = wallets[loc[w].sender].balance - loc[w].amount]_vars

\* C31 witness: a transfer of exactly the sender's whole balance has
\* succeeded and left the sender at zero
C31_Witness ==
  \E w \in Workers :
    /\ pc[w] = "done" /\ loc[w].op = "transfer" /\ result[w] = "success"
    /\ loc[w].amount = loc[w].senderBalance
    /\ wallets[loc[w].sender].balance = 0


\* the resolver's conditions hold for the key with this secret
Acceptable(secret) ==
  \E i \in 1..Len(keys) :
    /\ keys[i].key_hash = HashApiKey(secret)
    /\ ~keys[i].is_revoked
    /\ keys[i].is_active
    /\ keys[i].expires_at > now
    /\ UserIsActive(keys[i].user)

PermissionsOf(credential) ==
  keys[KeyByHash(HashApiKey(credential.secret))].permissions

BalanceGain ==
  SumOver([u \in Users |-> wallets[u].balance - InitBalance(u)], Users)

\* sum of the amounts of the DEPOSIT transactions whose status is SUCCESS
SuccessfulDeposits ==
  SumOver([i \in 1..Len(txs) |-> txs[i].amount],
          {i \in 1..Len(txs) : txs[i].type = DEPOSIT /\ txs[i].status = SUCCESS})

\* C34: in every committed state the sum of the wallet balances, counted from
\* the balances at the start, equals the sum of the amounts of the DEPOSIT
\* transactions whose status is SUCCESS.
C34_BalancesEqualSuccessfulDeposits ==
  BalanceGain = SuccessfulDeposits


\* positions of a request inside _process_deposit
WebhookPositions ==
  {"wh_mismatch", "wh_failed", "wh_wallet", "wh_commit", "wh_nowallet"}

\* C35: with deliveries processed one after another, whatever their amounts
\* and gateway statuses, no reference is credited more than once; a step that
\* credits on account of a reference adds exactly the stored amount of its
\* transaction to the owner's balance, changes no other wallet and leaves the
\* transaction SUCCESS; and a step of a delivery changes a wallet only as
\* such a credit.
C35_CreditedAtMostOnceByStoredAmount ==
  [][/\ \A r \in DepositRefs :
          LET i == TxIndex(r)
              owner == txs[i].user
          IN /\ creditLog'[r] <= 1
             /\ creditLog'[r] # creditLog[r] =>
                  /\ creditLog'[r] = creditLog[r] + 1
                  /\ wallets'[owner].balance =
                       wallets[owner].balance + txs[i].amount
                  /\ \A u \in Users \ {owner} : wallets'[u] = wallets[u]
                  /\ txs'[i].status = SUCCESS
     /\ \A w \in Workers :
          (pc[w] \in WebhookPositions /\ pc'[w] # pc[w] /\ wallets' # wallets) =>
            creditLog'[loc[w].reference] = creditLog[loc[w].reference] + 1]_vars

\* C35 witness: r1 was set to FAILED by an earlier delivery (wrong amount or
\* failed charge); the delivery that loaded it as FAILED has credited u1 with
\* the stored 2 hundredths, the only credit for r1
C35_Witness ==
  \E w \in Workers :
    /\ pc[w] = "done" /\ result[w] = "true"
    /\ loc[w].op = "webhook" /\ loc[w].reference = "r1"
    /\ loc[w].status = FAILED
    /\ creditLog["r1"] = 1
    /\ txs[TxIndex("r1")].status = SUCCESS
    /\ wallets["u1"].balance = InitBalance("u1") + txs[TxIndex("r1")].amount


\* C36: when the gateway redelivers the validly signed success webhook with
\* the matching amount of each PENDING deposit until it is acknowledged, and
\* every request runs to its response, each deposit eventually is SUCCESS
\* with its amount credited to its owner's wallet.
C36_RedeliveryEventuallyCredits ==
  <>(\A r \in DepositRefs :
       txs[TxIndex(r)].status = SUCCESS /\ creditLog[r] >= 1)


\* the value that hashes to the stored hash of key k
SecretOf(k) == k.key_hash[2]

\* C37: for every key that is active and not revoked, at every instant,
\* exactly one of the two expiry checks lets it through: the resolver's
\* (the key authenticates) or rollover_api_key's (the key may be rolled
\* over), also at the instant expires_at equals now; a rollover that passes
\* its checks is of a key the resolver refuses as expired, and the rollover
\* of a key the resolver accepts is refused as not expired.
C37_UsableXorRollable ==
  [][/\ \A i \in 1..Len(keys) :
          (keys[i].is_active /\ ~keys[i].is_revoked) =>
            (~KeyExpired(keys[i])) # (~KeyNotExpiredYet(keys[i]))
     /\ \A w \in Workers :
          (/\ pc[w] = "ro_select" /\ pc'[w] # pc[w]
           /\ OwnKey(loc[w].key_id, loc[w].user)
           /\ keys[loc[w].key_id].is_active
           /\ ~keys[loc[w].key_id].is_revoked) =>
            LET outcome == ApiKeyOutcome(SecretOf(keys[loc[w].key_id]))
            IN /\ pc'[w] = "ro_count" => outcome = "401:expired"
               /\ outcome = "ok" =>
                    result'[w] = "rollover/ValueError:notexpired"]_vars

\* C37 witness: at the instant key 1 expires (expires_at = now) the resolver
\* refuses it as expired and its rollover has passed the expiry check
C37_Witness ==
  \E w \in Workers :
    /\ pc[w] = "ro_count" /\ loc[w].key_id = 1
    /\ keys[1].is_active /\ ~keys[1].is_revoked
    /\ keys[1].expires_at = now
    /\ ApiKeyOutcome(SecretOf(keys[1])) = "401:expired"


\* C38: every step keeps every existing key: its owner, name, hash,
\* permission set, active flag and expiry are unchanged and its revoked flag
\* changes only from false to true; consequently a key that is revoked or
\* expired is not counted among the active keys of its user after the step
\* either.
C38_KeysImmutableRevokedForGood ==
  [][/\ Len(keys') >= Len(keys)
     /\ \A i \in 1..Len(keys) :
          /\ keys'[i] = [keys[i] EXCEPT !.is_revoked = keys'[i].is_revoked]
          /\ keys[i].is_revoked => keys'[i].is_revoked
          /\ (keys[i].is_revoked \/ keys[i].expires_at <= now) =>
               i \notin ActiveKeys(keys[i].user)']_vars

\* C38 witness: a rollover of key 1 has committed: key 1 is as it was created
\* but revoked, it is not among u1's active keys, and the successor is a
\* further row
C38_Witness ==
  \E w \in Workers :
    /\ pc[w] = "done" /\ result[w] = "rolled" /\ loc[w].key_id = 1
    /\ keys[1] = [SeedKey(FALSE, 0, 1) EXCEPT !.is_revoked = TRUE]
    /\ 1 \notin ActiveKeys("u1")
    /\ Len(keys) = 2 /\ ~keys[2].is_revoked /\ keys[2].expires_at > now


\* C39: a caller who authenticates with API keys only and starts with one key
\* of permission set P (key 1, {read}) holds, after any sequence of create,
\* rollover and revoke calls, no key with a permission outside P.
C39_NoPermissionEscalation ==
  \A i \in 1..Len(keys) : keys[i].permissions \subseteq keys[1].permissions

====
